---- MODULE Spec2Model ----
(***************************************************************************)
(* Verification model of the SpaceScienceTutorial scripts: the asteroid    *)
(* magnitude functions (_auxiliary/asteroid_aux.py, part19), the Tisserand *)
(* lambdas (part9, part10), the sphere-of-influence radius (part6,         *)
(* part14), the comet table columns (part7), the SOI search loops (part14), *)
(* mylib/general/vec.py (part23), the helpers of _auxiliary/func.py        *)
(* (download_file, add_col2tab), mag2irr (part16), the Tisserand column of *)
(* comets_main (part9) and the element array of comet ATLAS (part15).      *)
(*                                                                         *)
(* Numbers are binary floating-point values as float64 computes them, with *)
(* the mantissa shortened to MantBits bits: round-to-nearest-even after    *)
(* every operation, overflow to inf, underflow to 0, inf and nan           *)
(* propagating, float64's exponent range.                                  *)
(***************************************************************************)
EXTENDS Integers, Sequences, FiniteSets, TLC

VARIABLES
    pc,               \* which script / call is active
    call,             \* the function call in progress: [fn, args]
    ret,              \* its outcome: [kind |-> "value" | "raise" | "none", val, exc]
    A_JUPITER_AU,     \* part9 / part10: Jupiter's semi-major axis in AU
    c_df,             \* part7: the rows of the comet dataframe
    datetime_stamp,   \* part14: hours since 2017-01-01T00:00
    et_stamp,         \* part14: the epoch last converted to ET (hours), -1 = unassigned
    comet_jup_dist,   \* part14: the distance 67P - Jupiter last computed
    steps,            \* part14: iterations of the running loop
    examined,         \* part14: the epochs examined so far and the distance at each
    states,           \* part14: the epoch each state vector held by a name was computed at
    frames,           \* part14: the epochs of the vectors combined at each change of frame
    orb_elem,         \* part14: COMET_67P_ORB_ELEM_JUP_CNTR, the Jupiter-centric elements
    comets_main,      \* the table comets_main of mpc_comets.db, a row per comet
    P_TYPE_DF,        \* part9: the dataframe of the P type comets
    C_TYPE_DF,        \* part9: the dataframe of the C type comets
    ATLAS_ORB_EL,     \* part15: the dataframe row of C/2019 Y4 (ATLAS)
    ATLAS_SPICE_ORB_EL, \* part15: the elements in the order of spiceypy.conics
    tab_cols,         \* func.py: the columns <<name, type>> of the database table
    sql_log,          \* func.py: the statements the last add_col2tab executed
    fs_dirs,          \* func.py: the directories of the local file system
    fs_files,         \* func.py: its files, each with the url it was loaded from
    downloads         \* func.py: calls made, files retrieved per (dl_path, dl_url),
                      \* and what the last call did

searchVars == <<datetime_stamp, et_stamp, comet_jup_dist, steps, examined,
                states, frames, orb_elem>>
dbVars == <<comets_main, P_TYPE_DF, C_TYPE_DF, ATLAS_ORB_EL, ATLAS_SPICE_ORB_EL>>
funcVars == <<tab_cols, sql_log, fs_dirs, fs_files, downloads>>
vars == <<pc, call, ret, A_JUPITER_AU, c_df, searchVars, funcVars, dbVars>>

----------------------------------------------------------------------------
(* Floating point *)

\* Mantissa width of the model's floats (float64 has 53).
MantBits == 10

\* float64: values reach below 2^1024 and flush to zero below 2^-1074.
ExpMax == 2^10
ExpMin == -(2^10) - 50

Zero == [k |-> "fin", s |-> 1, m |-> 0, e |-> 0]
NaN == [k |-> "nan", s |-> 1, m |-> 0, e |-> 0]
Inf(s) == [k |-> "inf", s |-> s, m |-> 0, e |-> 0]

IsNaN(a) == a.k = "nan"
IsInf(a) == a.k = "inf"
IsFinite(a) == a.k = "fin"
IsZero(a) == a.k = "fin" /\ a.m = 0

Abs(n) == IF n < 0 THEN -n ELSE n
Sign(n) == IF n < 0 THEN -1 ELSE 1

\* Number of bits of n, 0 <= n < 2^30.
BitLen(n) == CHOOSE b \in 0..30 : (b = 0 /\ n = 0) \/ (b > 0 /\ 2^(b-1) <= n /\ n < 2^b)

\* n / 2^k rounded to the nearest integer, ties to even (k >= 1, n >= 0).
RoundShift(n, k) ==
    LET q == n \div 2^k
        r == n % 2^k
        half == 2^(k-1)
    IN IF r > half \/ (r = half /\ q % 2 = 1) THEN q + 1 ELSE q

\* The float nearest s * n * 2^e (n >= 0).
Normalize(s, n, e) ==
    IF n = 0 THEN Zero
    ELSE LET b == BitLen(n)
             k == b - MantBits
             q == IF k > 0 THEN RoundShift(n, k) ELSE n * 2^(-k)
             m == IF q = 2^MantBits THEN 2^(MantBits-1) ELSE q
             x == IF q = 2^MantBits THEN e + k + 1 ELSE e + k
         IN IF x + MantBits > ExpMax THEN Inf(s)
            ELSE IF x + MantBits - 1 < ExpMin THEN Zero
            ELSE [k |-> "fin", s |-> s, m |-> m, e |-> x]

FInt(n) == Normalize(Sign(n), Abs(n), 0)
One == FInt(1)

FNeg(a) == IF IsNaN(a) \/ IsZero(a) THEN a ELSE [a EXCEPT !.s = -a.s]

FMul(a, b) ==
    IF IsNaN(a) \/ IsNaN(b) THEN NaN
    ELSE IF IsInf(a) \/ IsInf(b)
         THEN IF IsZero(a) \/ IsZero(b) THEN NaN ELSE Inf(a.s * b.s)
    ELSE Normalize(a.s * b.s, a.m * b.m, a.e + b.e)

FAdd(a, b) ==
    IF IsNaN(a) \/ IsNaN(b) THEN NaN
    ELSE IF IsInf(a) /\ IsInf(b) THEN (IF a.s = b.s THEN a ELSE NaN)
    ELSE IF IsInf(a) THEN a
    ELSE IF IsInf(b) THEN b
    ELSE IF IsZero(a) THEN b
    ELSE IF IsZero(b) THEN a
    ELSE IF a.e - b.e > MantBits + 1 THEN a
    ELSE IF b.e - a.e > MantBits + 1 THEN b
    ELSE LET e0 == IF a.e < b.e THEN a.e ELSE b.e
             n == a.s * a.m * 2^(a.e - e0) + b.s * b.m * 2^(b.e - e0)
         IN Normalize(Sign(n), Abs(n), e0)

FSub(a, b) == FAdd(a, FNeg(b))

\* numpy's float64 division: x / 0 is inf (with a warning), 0 / 0 is nan.
FDiv(a, b) ==
    IF IsNaN(a) \/ IsNaN(b) THEN NaN
    ELSE IF IsInf(a) THEN (IF IsInf(b) THEN NaN ELSE Inf(a.s * b.s))
    ELSE IF IsInf(b) THEN Zero
    ELSE IF IsZero(b) THEN (IF IsZero(a) THEN NaN ELSE Inf(a.s * b.s))
    ELSE IF IsZero(a) THEN Zero
    ELSE LET num == a.m * 2^(MantBits + 2)
             q == num \div b.m
             sticky == IF num % b.m = 0 THEN 0 ELSE 1
         IN Normalize(a.s * b.s, 2 * q + sticky, a.e - b.e - MantBits - 3)

\* The float nearest n / d.
Lit(n, d) == FDiv(FInt(n), FInt(d))

\* -1, 0, 1 as a < b, a = b, a > b (neither is nan).
Cmp(a, b) ==
    LET cls(x) == IF IsInf(x) THEN 2 * x.s ELSE IF IsZero(x) THEN 0 ELSE x.s
        mag == IF a.e # b.e THEN (IF a.e < b.e THEN -1 ELSE 1)
               ELSE IF a.m # b.m THEN (IF a.m < b.m THEN -1 ELSE 1)
               ELSE 0
    IN IF cls(a) # cls(b) THEN (IF cls(a) < cls(b) THEN -1 ELSE 1)
       ELSE IF IsInf(a) \/ IsZero(a) THEN 0
       ELSE a.s * mag

FLess(a, b) == ~IsNaN(a) /\ ~IsNaN(b) /\ Cmp(a, b) < 0
FLeq(a, b) == ~IsNaN(a) /\ ~IsNaN(b) /\ Cmp(a, b) <= 0
FAbs(a) == IF IsNaN(a) THEN a ELSE [a EXCEPT !.s = 1]

RECURSIVE SqrtBits(_, _, _)
\* The integer square root of n: the bits of r are tried from 2^b down.
SqrtBits(n, r, b) ==
    IF b < 0 THEN r
    ELSE LET c == r + 2^b
         IN IF c * c <= n THEN SqrtBits(n, c, b - 1) ELSE SqrtBits(n, r, b - 1)

\* Correctly rounded square root; nan below zero.
FSqrt(a) ==
    IF IsNaN(a) THEN NaN
    ELSE IF IsZero(a) THEN Zero
    ELSE IF a.s < 0 THEN NaN
    ELSE IF IsInf(a) THEN a
    ELSE LET t == IF (a.e - MantBits) % 2 = 0 THEN MantBits + 2 ELSE MantBits + 3
             n == a.m * 2^t
             r == SqrtBits(n, 0, MantBits + 2)
             sticky == IF r * r = n THEN 0 ELSE 1
         IN Normalize(1, 2 * r + sticky, (a.e - t) \div 2 - 1)

----------------------------------------------------------------------------
(* Library functions of numpy / math on floats *)

\* Fixed-point scales of the exp / log evaluation: arguments carry FixBits
\* fraction bits, the running product or square carries WorkBits.
FixBits == 2 * 5
WorkBits == 2 * 7

\* round(x * 2^FixBits) for a finite x with |x| < 2^19.
ToFix(x) ==
    LET sh == x.e + FixBits
    IN IF IsZero(x) THEN 0
       ELSE IF sh >= 0 THEN x.s * x.m * 2^sh
       ELSE IF -sh > MantBits + 1 THEN 0
       ELSE x.s * RoundShift(x.m, -sh)

\* 2^(2^-i) * 2^WorkBits for i = 1..FixBits.
Root2 == <<23170, 19484, 17867, 17109, 16743, 16562, 16473, 16428, 16406, 16395>>

RECURSIVE Exp2Frac(_, _, _)
\* 2^(f / 2^FixBits) * 2^WorkBits, the product over the set bits of f.
Exp2Frac(f, i, acc) ==
    IF i > FixBits THEN acc
    ELSE IF (f \div 2^(FixBits - i)) % 2 = 1
         THEN Exp2Frac(f, i + 1, (acc * Root2[i] + 2^(WorkBits - 1)) \div 2^WorkBits)
         ELSE Exp2Frac(f, i + 1, acc)

\* The float 2^(y / 2^FixBits).
Exp2Fix(y) ==
    Normalize(1, Exp2Frac(y % 2^FixBits, 1, 2^WorkBits), (y \div 2^FixBits) - WorkBits)

RECURSIVE Log2Frac(_, _, _)
\* The fraction bits of log2(z / 2^WorkBits), 1 <= z / 2^WorkBits < 2, by squaring.
Log2Frac(z, i, acc) ==
    IF i > FixBits THEN acc
    ELSE LET sq == (z * z) \div 2^WorkBits
         IN IF sq >= 2 * 2^WorkBits
            THEN Log2Frac(sq \div 2, i + 1, 2 * acc + 1)
            ELSE Log2Frac(sq, i + 1, 2 * acc)

\* log2(x) * 2^FixBits for a finite x > 0.
Log2Fix(x) ==
    (x.e + MantBits - 1) * 2^FixBits
        + Log2Frac(x.m * 2^(WorkBits - (MantBits - 1)), 1, 0)

\* np.exp: overflows to inf above 709.78, underflows to 0 below -745.13.
FExp(x) ==
    IF IsNaN(x) THEN NaN
    ELSE IF IsInf(x) THEN (IF x.s > 0 THEN x ELSE Zero)
    ELSE IF IsZero(x) THEN One
    ELSE IF FLess(FInt(1100), FAbs(x)) THEN (IF x.s > 0 THEN Inf(1) ELSE Zero)
    ELSE LET xf == ToFix(x)
             \* log2(e) = (1477 + 327 / 1024) / 1024
             y == (xf * 1477 + ((xf * 327) \div 1024)) \div 1024
         IN Exp2Fix(y)

\* np.log10: -inf at 0 and nan below 0, each with a RuntimeWarning only.
FLog10(x) ==
    IF IsNaN(x) THEN NaN
    ELSE IF IsZero(x) THEN Inf(-1)
    ELSE IF x.s < 0 THEN NaN
    ELSE IF IsInf(x) THEN x
    ELSE LET l == Log2Fix(x)
         \* log10(2) = 1233 / 4096
         IN Normalize(Sign(l), Abs(l) * 1233, -(FixBits + 12))

IsIntegral(b) == IsFinite(b) /\ (IsZero(b) \/ (b.e <= 0 /\ b.e > -MantBits /\ b.m % 2^(-b.e) = 0) \/ b.e > 0)

RECURSIVE PowInt(_, _)
PowInt(x, n) == IF n = 0 THEN One ELSE FMul(PowInt(x, n - 1), x)

\* round(l * b) for a fixed-point l and a finite float b >= 0.
MulFix(l, b) ==
    IF IsZero(b) THEN 0
    ELSE IF b.e >= 0 THEN l * b.m * 2^b.e
    ELSE (l * b.m + 2^(-b.e - 1)) \div 2^(-b.e)

RECURSIVE FPow(_, _)
\* x ** b for a finite b: a small whole b >= 0 multiplies x out, any other
\* b >= 0 goes through 2^(b * log2(x)), a negative x with a fractional b gives
\* nan; a negative b gives the reciprocal of x ** -b.
FPow(x, b) ==
    IF IsNaN(x) THEN NaN
    ELSE IF b.s < 0 /\ ~IsZero(b) THEN FDiv(One, FPow(x, FAbs(b)))
    ELSE IF IsIntegral(b) /\ FLeq(b, FInt(16)) THEN PowInt(x, ToFix(b) \div 2^FixBits)
    ELSE IF IsZero(x) THEN Zero
    ELSE IF x.s < 0 THEN NaN
    ELSE IF IsInf(x) THEN x
    ELSE Exp2Fix(MulFix(Log2Fix(x), b))

\* Angles are counted in units of pi/24; the library evaluates the trigonometric
\* functions at the float64 nearest the angle.  TanTable[u] is np.tan at u/2
\* units (keys 0, 2, .., 12: 0, 15, .. 90 degrees): <<n, e>> is n * 2^e.  The
\* float64 nearest pi/2 lies below pi/2, so np.tan there is 1.633e16, finite.
TanTable ==
    [u \in {0, 2, 4, 6, 8, 10, 12} |->
        CASE u = 0 -> <<0, 0>>
          [] u = 2 -> <<8990883, -25>>
          [] u = 4 -> <<9686330, -24>>
          [] u = 6 -> <<16777216, -24>>
          [] u = 8 -> <<14529495, -23>>
          [] u = 10 -> <<15653356, -22>>
          [] u = 12 -> <<15209652, 30>>]

\* 0.5 * angle: halving a float is exact.
HalfAngle(u) == u \div 2

\* np.tan at u units, u in 0, 2, .., 12.
np_tan(u) == Normalize(1, TanTable[u][1], TanTable[u][2])

\* CosTable[u] is np.cos at u units (keys 0, 4, .., 24: 0, 30, .. 180 degrees):
\* <<s, n, e>> is s * n * 2^e.  np.cos at the float64 nearest pi/2 is 6.1e-17.
CosTable ==
    [u \in {0, 4, 8, 12, 16, 20, 24} |->
        CASE u = 0 -> <<1, 8388608, -23>>
          [] u = 4 -> <<1, 14529495, -24>>
          [] u = 8 -> <<1, 8388608, -24>>
          [] u = 12 -> <<1, 9253170, -77>>
          [] u = 16 -> <<-1, 16777216, -25>>
          [] u = 20 -> <<-1, 14529495, -24>>
          [] u = 24 -> <<-1, 8388608, -23>>]

\* np.cos at u units, u in 0, 4, .., 24.
np_cos(u) == Normalize(CosTable[u][1], CosTable[u][2], CosTable[u][3])

\* n * 10^k, the float of a literal in scientific notation (k >= 0).
Sci(n, k) == FMul(FInt(n), PowInt(FInt(10), k))

----------------------------------------------------------------------------
(* Calls and their outcomes *)

Value(v) == [kind |-> "value", val |-> v, exc |-> "none"]
Raise(x) == [kind |-> "raise", val |-> NaN, exc |-> x]
NoRet == [kind |-> "none", val |-> NaN, exc |-> "none"]
NoCall == [fn |-> "none", args |-> <<>>]

\* A float of this many units stands for the angle nearest units * pi / 24.
Pi == 24

----------------------------------------------------------------------------
(* _auxiliary/asteroid_aux.py and part19: phi_func, red_mag, app_mag *)

a_factor == [i \in {"1", "2"} |-> IF i = "1" THEN Lit(333, 100) ELSE Lit(187, 100)]
b_factor == [i \in {"1", "2"} |-> IF i = "1" THEN Lit(63, 100) ELSE Lit(122, 100)]

\* Python's unary plus, the '+' of the '*+' in the phase function.
UPos(x) == x

\* The phase function with '*+' read as an addition.
phi_func_added(index, phase_angle) ==
    IF index \notin DOMAIN a_factor THEN Raise("KeyError")
    ELSE Value(FExp(FAdd(FMul(FInt(-1), a_factor[index]),
                         FPow(np_tan(HalfAngle(phase_angle)), b_factor[index]))))

\* phi = np.exp(-1.0 * a_factor[index] *+ (np.tan(0.5 * phase_angle) ** b_factor[index]))
phi_func(index, phase_angle) ==
    IF index \notin DOMAIN a_factor THEN Raise("KeyError")
    ELSE Value(FExp(FMul(FMul(FInt(-1), a_factor[index]),
                         UPos(FPow(np_tan(HalfAngle(phase_angle)), b_factor[index])))))

\* red_mag with the (1 - G) weight of the first phase function forgotten.
red_mag_unweighted(abs_mag, phase_angle, slope_g) ==
    LET phi1 == phi_func("1", phase_angle)
        phi2 == phi_func("2", phase_angle)
    IN IF phi1.kind = "raise" THEN phi1
       ELSE IF phi2.kind = "raise" THEN phi2
       ELSE Value(FSub(abs_mag,
                       FMul(Lit(5, 2),
                            FLog10(FAdd(phi1.val, FMul(slope_g, phi2.val))))))

\* red_mag with math.log10, which raises ValueError at 0, in place of np.log10.
red_mag_mathlog(abs_mag, phase_angle, slope_g) ==
    LET phi1 == phi_func("1", phase_angle)
        phi2 == phi_func("2", phase_angle)
        mix == FAdd(FMul(FSub(One, slope_g), phi1.val), FMul(slope_g, phi2.val))
    IN IF phi1.kind = "raise" THEN phi1
       ELSE IF phi2.kind = "raise" THEN phi2
       ELSE IF IsZero(mix) \/ (IsFinite(mix) /\ mix.s < 0) THEN Raise("ValueError")
       ELSE Value(FSub(abs_mag, FMul(Lit(5, 2), FLog10(mix))))

\* r_mag = abs_mag - 2.5 * np.log10((1.0 - slope_g) * phi_func('1', phase_angle)
\*                                  + slope_g * phi_func('2', phase_angle))
red_mag(abs_mag, phase_angle, slope_g) ==
    LET phi1 == phi_func("1", phase_angle)
        phi2 == phi_func("2", phase_angle)
    IN IF phi1.kind = "raise" THEN phi1
       ELSE IF phi2.kind = "raise" THEN phi2
       ELSE Value(FSub(abs_mag,
                       FMul(Lit(5, 2),
                            FLog10(FAdd(FMul(FSub(One, slope_g), phi1.val),
                                        FMul(slope_g, phi2.val))))))

\* app_mag with the Earth distance left outside the logarithm.
app_mag_misplaced(abs_mag, phase_angle, slope_g, d_ast_sun, d_ast_earth) ==
    LET r_mag == red_mag(abs_mag, phase_angle, slope_g)
    IN IF r_mag.kind = "raise" THEN r_mag
       ELSE Value(FAdd(r_mag.val,
                       FMul(FMul(FInt(5), FLog10(d_ast_sun)), d_ast_earth)))

\* mag = red_mag(abs_mag, phase_angle, slope_g) + 5.0 * np.log10(d_ast_sun * d_ast_earth)
app_mag(abs_mag, phase_angle, slope_g, d_ast_sun, d_ast_earth) ==
    LET r_mag == red_mag(abs_mag, phase_angle, slope_g)
    IN IF r_mag.kind = "raise" THEN r_mag
       ELSE Value(FAdd(r_mag.val,
                       FMul(FInt(5), FLog10(FMul(d_ast_sun, d_ast_earth)))))

\* Input grids of the magnitude calls.
MagSteps == 2
GSteps == 4
DistSteps == 3

AbsMags == {Lit(17 * i, 10) : i \in 0..MagSteps}
Slopes == {Lit(i, GSteps) : i \in 0..GSteps} \cup {Lit(12, 100)}
Dists == {Lit(i, 2) : i \in 1..DistSteps}
PhaseAngles == {4 * i : i \in 0..6}
Indices == {"1", "2", "3"}

\* No Jupiter-centric element set has been computed.
NoElements == [kind |-> "none"]

\* part14 has not run: no epoch converted, no distance computed.
SearchNotStarted ==
    /\ datetime_stamp = 0
    /\ et_stamp = -1
    /\ comet_jup_dist = Zero
    /\ steps = 0
    /\ examined = <<>>
    /\ states = <<>>
    /\ frames = <<>>
    /\ orb_elem = NoElements

\* The database has not been read: no table, no dataframe.
DbNotRead ==
    /\ comets_main = <<>>
    /\ P_TYPE_DF = <<>>
    /\ C_TYPE_DF = <<>>
    /\ ATLAS_ORB_EL = <<>>
    /\ ATLAS_SPICE_ORB_EL = <<>>

\* func.py has not been called: no table, an empty working directory.
FuncNotCalled ==
    /\ tab_cols = <<>>
    /\ sql_log = <<>>
    /\ fs_dirs = {}
    /\ fs_files = <<>>
    /\ downloads = <<>>

Init ==
    /\ pc = "idle"
    /\ call = NoCall
    /\ ret = NoRet
    /\ A_JUPITER_AU = Lit(52, 10)
    /\ c_df = <<>>
    /\ SearchNotStarted
    /\ FuncNotCalled
    /\ DbNotRead

\* A call returns (or its exception has been seen): the caller goes on.
Return ==
    /\ pc = "called"
    /\ pc' = "idle"
    /\ call' = NoCall
    /\ ret' = NoRet
    /\ UNCHANGED <<A_JUPITER_AU, c_df, searchVars, funcVars, dbVars>>

CallPhiFunc ==
    /\ pc = "idle"
    /\ \E index \in Indices, phase_angle \in PhaseAngles :
          /\ call' = [fn |-> "phi_func", args |-> <<index, phase_angle>>]
          /\ ret' = phi_func(index, phase_angle)
    /\ pc' = "called"
    /\ UNCHANGED <<A_JUPITER_AU, c_df, searchVars, funcVars, dbVars>>

CallRedMag ==
    /\ pc = "idle"
    /\ \E abs_mag \in AbsMags, phase_angle \in PhaseAngles, slope_g \in Slopes :
          /\ call' = [fn |-> "red_mag", args |-> <<abs_mag, phase_angle, slope_g>>]
          /\ ret' = red_mag(abs_mag, phase_angle, slope_g)
    /\ pc' = "called"
    /\ UNCHANGED <<A_JUPITER_AU, c_df, searchVars, funcVars, dbVars>>

CallAppMag ==
    /\ pc = "idle"
    /\ \E abs_mag \in AbsMags, phase_angle \in PhaseAngles, slope_g \in Slopes,
          d_ast_sun \in Dists, d_ast_earth \in Dists :
          /\ call' = [fn |-> "app_mag",
                      args |-> <<abs_mag, phase_angle, slope_g, d_ast_sun, d_ast_earth>>]
          /\ ret' = app_mag(abs_mag, phase_angle, slope_g, d_ast_sun, d_ast_earth)
    /\ pc' = "called"
    /\ UNCHANGED <<A_JUPITER_AU, c_df, searchVars, funcVars, dbVars>>

NextMag == CallPhiFunc \/ CallRedMag \/ CallAppMag \/ Return

SpecMag == Init /\ [][NextMag]_vars

----------------------------------------------------------------------------
(* Claims about the magnitude functions, checked under SpecMag *)

\* C1: at phase angle 0 and both distances 1.0, app_mag returns abs_mag itself,
\* for every abs_mag and every slope G in [0, 1]: phi_func is 1 for both
\* indices, so red_mag is abs_mag, and the distance term is 0.
C1_ZeroPhaseUnitDistance ==
    (call.fn = "app_mag" /\ call.args[2] = 0 /\ call.args[4] = One /\ call.args[5] = One)
        => /\ ret = Value(call.args[1])
           /\ phi_func("1", 0) = Value(One)
           /\ phi_func("2", 0) = Value(One)
           /\ red_mag(call.args[1], 0, call.args[3]) = Value(call.args[1])

\* C1 witness: app_mag(3.4, 0, 0.12, 1.0, 1.0) has returned 3.4.
C1_Witness ==
    /\ call = [fn |-> "app_mag", args |-> <<Lit(34, 10), 0, Lit(12, 100), One, One>>]
    /\ ret = Value(Lit(34, 10))

\* C4: phi_func(index, phase_angle) is exp(-A * tan(phase_angle / 2)^B) with
\* (A, B) = (3.33, 0.63) for index '1' and (1.87, 1.22) for index '2', the
\* formula written with one multiplication.
C4_PhaseFormula ==
    (call.fn = "phi_func" /\ call.args[1] \in {"1", "2"})
        => LET A == IF call.args[1] = "1" THEN Lit(333, 100) ELSE Lit(187, 100)
               B == IF call.args[1] = "1" THEN Lit(63, 100) ELSE Lit(122, 100)
               t == np_tan(HalfAngle(call.args[2]))
           IN ret = Value(FExp(FNeg(FMul(A, FPow(t, B)))))

\* C4 witness: phi_func('2', pi/3) has returned a value strictly between 0 and 1.
C4_Witness ==
    /\ call = [fn |-> "phi_func", args |-> <<"2", 8>>]
    /\ ret.kind = "value"
    /\ FLess(Zero, ret.val)
    /\ FLess(ret.val, One)

\* The calls that evaluate the phase function at phase angle pi.
AtSingularAngle ==
    \/ call.fn = "phi_func" /\ call.args[1] \in {"1", "2"} /\ call.args[2] = Pi
    \/ call.fn \in {"red_mag", "app_mag"} /\ call.args[2] = Pi

C6_DistanceCorrection ==
    call.fn = "app_mag"
        => LET H == call.args[1]
               a == call.args[2]
               G == call.args[3]
               ds == call.args[4]
               de == call.args[5]
               mix == FAdd(FMul(FSub(One, G), phi_func("1", a).val),
                           FMul(G, phi_func("2", a).val))
               r == FSub(H, FMul(Lit(5, 2), FLog10(mix)))
           IN /\ red_mag(H, a, G) = Value(r)
              /\ ret = Value(FAdd(r, FMul(FInt(5), FLog10(FMul(ds, de)))))
              /\ app_mag(H, a, G, de, ds) = ret

\* C6 witness: app_mag with two different distances, at a phase angle between
\* 0 and pi, has returned a finite magnitude.
C6_Witness ==
    /\ call.fn = "app_mag"
    /\ call.args[2] \notin {0, Pi}
    /\ call.args[4] # call.args[5]
    /\ ret.kind = "value"
    /\ IsFinite(ret.val)

----------------------------------------------------------------------------
(* part9 and part10: the Tisserand parameter with respect to Jupiter *)

\* The lambda with the factor 2 of the second term forgotten.
tisr_jup_halved(a, i, e) ==
    Value(FAdd(FDiv(A_JUPITER_AU, a),
               FMul(np_cos(i),
                    FSqrt(FMul(FDiv(a, A_JUPITER_AU), FSub(One, FPow(e, FInt(2))))))))

\* part9: tisr_jup = lambda a, i, e: (A_JUPITER_AU / a) + 2 * np.cos(i)
\*                                   * np.sqrt((a / A_JUPITER_AU) * (1 - (e**2.0)))
tisr_jup(a, i, e) ==
    Value(FAdd(FDiv(A_JUPITER_AU, a),
               FMul(FMul(FInt(2), np_cos(i)),
                    FSqrt(FMul(FDiv(a, A_JUPITER_AU), FSub(One, FPow(e, FInt(2))))))))

\* part10: tisserand_jup = lambda a, i, e: (A_JUPITER_AU / a) + 2 * np.cos(i)
\*                                         * np.sqrt((a / A_JUPITER_AU) * (1 - (e**2.0)))
tisserand_jup(a, i, e) ==
    Value(FAdd(FDiv(A_JUPITER_AU, a),
               FMul(FMul(FInt(2), np_cos(i)),
                    FSqrt(FMul(FDiv(a, A_JUPITER_AU), FSub(One, FPow(e, FInt(2))))))))

\* Input grids of the Tisserand calls.
AxisSteps == 4
EccSteps == 4

\* Values spiceypy.convrt(ORB_ELEM_JUPITER[-2], 'km', 'AU') may give.
JupiterAxes == {Lit(52, 10), Lit(21, 4)}
Axes == {Lit(i, 2) : i \in 1..AxisSteps} \cup JupiterAxes
Inclinations == {4 * i : i \in 0..6}
Eccs == {Lit(i, EccSteps) : i \in 0..EccSteps}

InitTiss ==
    /\ pc = "idle"
    /\ call = NoCall
    /\ ret = NoRet
    /\ A_JUPITER_AU \in JupiterAxes
    /\ c_df = <<>>
    /\ SearchNotStarted
    /\ FuncNotCalled
    /\ DbNotRead

CallTisrJup ==
    /\ pc = "idle"
    /\ \E a \in Axes, i \in Inclinations, e \in Eccs :
          /\ call' = [fn |-> "tisr_jup", args |-> <<a, i, e>>]
          /\ ret' = tisr_jup(a, i, e)
    /\ pc' = "called"
    /\ UNCHANGED <<A_JUPITER_AU, c_df, searchVars, funcVars, dbVars>>

CallTisserandJup ==
    /\ pc = "idle"
    /\ \E a \in Axes, i \in Inclinations, e \in Eccs :
          /\ call' = [fn |-> "tisserand_jup", args |-> <<a, i, e>>]
          /\ ret' = tisserand_jup(a, i, e)
    /\ pc' = "called"
    /\ UNCHANGED <<A_JUPITER_AU, c_df, searchVars, funcVars, dbVars>>

NextTiss == CallTisrJup \/ CallTisserandJup \/ Return

SpecTiss == InitTiss /\ [][NextTiss]_vars

\* C2: for a = A_JUPITER_AU, i = 0 and e = 0 the Tisserand parameter is exactly
\* 3.0, for the tisr_jup lambda of part9 and the tisserand_jup lambda of part10.
C2_TisserandAtJupiter ==
    (call.fn \in {"tisr_jup", "tisserand_jup"}
        /\ call.args[1] = A_JUPITER_AU /\ call.args[2] = 0 /\ call.args[3] = Zero)
        => ret = Value(FInt(3))

\* C2 witness: tisserand_jup(A_JUPITER_AU, 0, 0) has returned 3.0.
C2_Witness ==
    /\ call = [fn |-> "tisserand_jup", args |-> <<A_JUPITER_AU, 0, Zero>>]
    /\ ret = Value(FInt(3))

----------------------------------------------------------------------------
(* part6 and part14: the radius of the sphere of influence *)

\* The radius with the power taken of the whole product.
soi_radius_power_of_product(a, gm_body, gm_primary) ==
    FPow(FMul(a, FDiv(gm_body, gm_primary)), FDiv(FInt(2), FInt(5)))

\* a * (gm_body / gm_primary) ** (2.0 / 5.0)
soi_radius(a, gm_body, gm_primary) ==
    FMul(a, FPow(FDiv(gm_body, gm_primary), FDiv(FInt(2), FInt(5))))

\* part14: SOI_JUPITER_R = JUPITER_A * (GM_JUPITER/GM_SUN) ** (2.0/5.0) * 1
soi_jupiter_r(JUPITER_A, GM_JUPITER, GM_SUN) ==
    FMul(soi_radius(JUPITER_A, GM_JUPITER, GM_SUN), FInt(1))

\* part6: SOI_EARTH_R = ONE_AU * (GM_EARTH/GM_SUN) ** (2.0/5.0)
soi_earth_r(ONE_AU, GM_EARTH, GM_SUN) == soi_radius(ONE_AU, GM_EARTH, GM_SUN)

\* Input grids of the radius: semi-major axes in km, GM values in km^3/s^2.
SoiAxisSteps == 6
SemiMajorAxes ==
    {Sci(i, 8) : i \in 1..SoiAxisSteps} \cup {Sci(1496, 5), Sci(7783, 5)}
BodyGMs == {Sci(3986, 2), Sci(4283, 1), Sci(1267, 5), Sci(3794, 4)}
PrimaryGMs == {Sci(1327, 8), Sci(1267, 5)}

CallSoiJupiter ==
    /\ pc = "idle"
    /\ \E a \in SemiMajorAxes, gm_body \in BodyGMs, gm_primary \in PrimaryGMs :
          /\ call' = [fn |-> "SOI_JUPITER_R", args |-> <<a, gm_body, gm_primary>>]
          /\ ret' = Value(soi_jupiter_r(a, gm_body, gm_primary))
    /\ pc' = "called"
    /\ UNCHANGED <<A_JUPITER_AU, c_df, searchVars, funcVars, dbVars>>

CallSoiEarth ==
    /\ pc = "idle"
    /\ \E a \in SemiMajorAxes, gm_body \in BodyGMs, gm_primary \in PrimaryGMs :
          /\ call' = [fn |-> "SOI_EARTH_R", args |-> <<a, gm_body, gm_primary>>]
          /\ ret' = Value(soi_earth_r(a, gm_body, gm_primary))
    /\ pc' = "called"
    /\ UNCHANGED <<A_JUPITER_AU, c_df, searchVars, funcVars, dbVars>>

NextSoi == CallSoiJupiter \/ CallSoiEarth \/ Return

SpecSoi == Init /\ [][NextSoi]_vars

\* The radius the running call computes for semi-major axis a, at the call's
\* gravitational parameters.
RadiusAt(a) ==
    IF call.fn = "SOI_JUPITER_R"
    THEN soi_jupiter_r(a, call.args[2], call.args[3])
    ELSE soi_earth_r(a, call.args[2], call.args[3])

\* C3: at a fixed ratio of gravitational parameters the sphere-of-influence
\* radius is linear in the semi-major axis a: doubling a doubles the radius
\* exactly, and a larger a never gives a smaller radius.
C3_SoiLinearInAxis ==
    call.fn \in {"SOI_JUPITER_R", "SOI_EARTH_R"}
        => /\ ret = Value(RadiusAt(call.args[1]))
           /\ RadiusAt(FMul(FInt(2), call.args[1])) = FMul(FInt(2), ret.val)
           /\ \A a2 \in SemiMajorAxes :
                 FLeq(call.args[1], a2) => FLeq(ret.val, RadiusAt(a2))

\* C3 witness: Jupiter's radius has been computed from a = 7.783e8 km and the
\* ratio GM_JUPITER / GM_SUN, a finite positive value below a.
C3_Witness ==
    /\ call = [fn |-> "SOI_JUPITER_R", args |-> <<Sci(7783, 5), Sci(1267, 5), Sci(1327, 8)>>]
    /\ ret.kind = "value"
    /\ IsFinite(ret.val)
    /\ FLess(Zero, ret.val)
    /\ FLess(ret.val, call.args[1])

----------------------------------------------------------------------------
(* part7: the semi-major axis and aphelion columns of the comet dataframe *)

\* The lambda computing the axis for every orbit that is not parabolic.
semi_major_axis_au_open(x) ==
    IF x.e # One THEN FDiv(x.Perihelion_dist, FSub(One, x.e)) ELSE NaN

\* lambda x: x['Perihelion_dist'] / (1.0 - x['e']) if x['e'] < 1 else np.nan
semi_major_axis_au(x) ==
    IF FLess(x.e, One) THEN FDiv(x.Perihelion_dist, FSub(One, x.e)) ELSE NaN

\* lambda x: (1.0 + x['e']) * x['SEMI_MAJOR_AXIS_AU'] if x['e'] < 1 else np.nan
aphelion_au(x) ==
    IF FLess(x.e, One) THEN FMul(FAdd(One, x.e), x.SEMI_MAJOR_AXIS_AU) ELSE NaN

\* Bounds of the dataframe: rows, perihelion distances (AU), eccentricities.
MaxRows == 2
PeriSteps == 2
CometEccSteps == 6

Perihelia == {Lit(i, 2) : i \in 1..PeriSteps}
CometEccs == {Lit(i, 4) : i \in 0..CometEccSteps}
CometRows == [Perihelion_dist : Perihelia, e : CometEccs]

\* c_df as read from the MPC file: the perihelion distance and the
\* eccentricity of each comet.
InitComets ==
    /\ pc = "part7_loaded"
    /\ call = NoCall
    /\ ret = NoRet
    /\ A_JUPITER_AU = Lit(52, 10)
    /\ c_df \in UNION {[1..n -> CometRows] : n \in 1..MaxRows}
    /\ SearchNotStarted
    /\ FuncNotCalled
    /\ DbNotRead

\* c_df.loc[:, 'SEMI_MAJOR_AXIS_AU'] = c_df.apply(..., axis=1)
ComputeSemiMajorAxis ==
    /\ pc = "part7_loaded"
    /\ c_df' = [r \in DOMAIN c_df |->
                  [Perihelion_dist |-> c_df[r].Perihelion_dist,
                   e |-> c_df[r].e,
                   SEMI_MAJOR_AXIS_AU |-> semi_major_axis_au(c_df[r])]]
    /\ pc' = "part7_axis"
    /\ UNCHANGED <<call, ret, A_JUPITER_AU, searchVars, funcVars, dbVars>>

\* c_df.loc[:, 'APHELION_AU'] = c_df.apply(..., axis=1)
ComputeAphelion ==
    /\ pc = "part7_axis"
    /\ c_df' = [r \in DOMAIN c_df |->
                  [Perihelion_dist |-> c_df[r].Perihelion_dist,
                   e |-> c_df[r].e,
                   SEMI_MAJOR_AXIS_AU |-> c_df[r].SEMI_MAJOR_AXIS_AU,
                   APHELION_AU |-> aphelion_au(c_df[r])]]
    /\ pc' = "part7_aphelion"
    /\ UNCHANGED <<call, ret, A_JUPITER_AU, searchVars, funcVars, dbVars>>

NextComets == ComputeSemiMajorAxis \/ ComputeAphelion

SpecComets == InitComets /\ [][NextComets]_vars

\* C9 as claimed: the semi-major axis of every comet row agrees in sign with
\* the regime: positive for e < 1, negative for e > 1, undefined only for
\* e = 1; the aphelion is defined exactly when e < 1.
C9_AxisSignAgreesWithRegime ==
    /\ pc \in {"part7_axis", "part7_aphelion"} =>
          \A r \in DOMAIN c_df :
             LET a == c_df[r].SEMI_MAJOR_AXIS_AU
                 e == c_df[r].e
             IN /\ FLess(e, One) => FLess(Zero, a)
                /\ FLess(One, e) => FLess(a, Zero)
                /\ IsNaN(a) => e = One
    /\ pc = "part7_aphelion" =>
          \A r \in DOMAIN c_df : ~IsNaN(c_df[r].APHELION_AU) <=> FLess(c_df[r].e, One)

\* C9 as amended: for a positive perihelion distance the semi-major axis is
\* positive for e < 1 and nan for every e >= 1, hyperbolic orbits included;
\* the aphelion is defined exactly when e < 1.
C9_AxisOnlyForClosedOrbits ==
    /\ pc \in {"part7_axis", "part7_aphelion"} =>
          \A r \in DOMAIN c_df :
             LET a == c_df[r].SEMI_MAJOR_AXIS_AU
                 e == c_df[r].e
             IN /\ FLess(e, One) => FLess(Zero, a)
                /\ ~FLess(e, One) => IsNaN(a)
    /\ pc = "part7_aphelion" =>
          \A r \in DOMAIN c_df : ~IsNaN(c_df[r].APHELION_AU) <=> FLess(c_df[r].e, One)

\* C9 witness: both columns are computed for a dataframe holding a closed
\* orbit (e = 0.5, a = 2 q) and a hyperbolic one (e = 1.5, a = nan).
C9_Witness ==
    /\ pc = "part7_aphelion"
    /\ \E r1, r2 \in DOMAIN c_df :
          /\ c_df[r1].e = Lit(1, 2)
          /\ c_df[r1].SEMI_MAJOR_AXIS_AU = FMul(FInt(2), c_df[r1].Perihelion_dist)
          /\ ~IsNaN(c_df[r1].APHELION_AU)
          /\ c_df[r2].e = Lit(3, 2)
          /\ IsNaN(c_df[r2].SEMI_MAJOR_AXIS_AU)
          /\ IsNaN(c_df[r2].APHELION_AU)

----------------------------------------------------------------------------
(* part14: the time-stepped search for 67P entering and leaving Jupiter's
   sphere of influence *)

\* SOI_JUPITER_R with JUPITER_A = 7.783e8 km, GM_JUPITER = 1.267e8 and
\* GM_SUN = 1.327e11 km^3/s^2, the values the SPICE kernels provide.
SOI_JUPITER_R == soi_jupiter_r(Sci(7783, 5), Sci(1267, 5), Sci(1327, 8))

\* The model follows the search for this many hours after 2017-01-01T00:00.
MaxHours == 6

\* Distances (km) spiceypy.vnorm may return: inside the sphere, on its border,
\* outside it.
Distances == {Sci(1, 7), SOI_JUPITER_R, Sci(1, 8), Sci(5, 8)}

\* Hyperbolic flybys of Jupiter (two-body motion with mu = GM_JUPITER): the
\* eccentricity of the element set (in units of 10^5), whether the comet is on
\* the border of the sphere or inside it (at 10^7 km) at the epoch of the
\* elements, inbound, and the distances (in units of 10^4 km) spiceypy.conics
\* gives 1, 2, ... hours later, from Kepler's equation e sinh H - H = n t and
\* r = |a| (e cosh H - 1).  The periapsis distances are 2e7, 3e7 and 5e6 km.
Flybys ==
    << [ecc |-> 40, from |-> "border",
        dist |-> <<3262, 2141, 2258, 3490, 5082, 6785, 8534>>],
       [ecc |-> 30, from |-> "border",
        dist |-> <<3902, 3236, 3001, 3289, 3990, 4929, 5997>>],
       [ecc |-> 15, from |-> "inside",
        dist |-> <<1443, 3608, 5814, 8027, 10244, 12461, 14679>>] >>

\* 10^7 km, a distance inside the sphere.
InsideDistance == Sci(1, 7)

\* The distance of a flyby at the epoch of its elements.
EntryDistance(f) == IF f.from = "border" THEN SOI_JUPITER_R ELSE InsideDistance

\* spiceypy.oscelt(state, et, mu=GM_JUPITER) for a state at distance dist: an
\* element set of which nothing more is known, or one of the hyperbolic
\* flybys that is at this distance at the epoch of the elements.
oscelt(dist) ==
    {[kind |-> "any"]}
    \cup {[kind |-> "conic", ecc |-> FInt(Flybys[i].ecc * 10^5), flyby |-> i] :
             i \in {j \in DOMAIN Flybys : EntryDistance(Flybys[j]) = dist}}

\* The eccentricity of the element set is > 1.
Hyperbolic(elem) == elem.kind = "conic" /\ FLess(One, elem.ecc)

\* |r| of spiceypy.conics(elem, et) for a flyby, hours after the epoch of the
\* elements; past the end of the table the comet recedes along the asymptote,
\* by the same distance every hour.
conics_dist(elem, hours) ==
    LET f == Flybys[elem.flyby]
        n == Len(f.dist)
    IN IF hours <= 0 THEN EntryDistance(f)
       ELSE IF hours <= n THEN FInt(f.dist[hours] * 10^4)
       ELSE FInt((f.dist[n] + (hours - n) * (f.dist[n] - f.dist[n - 1])) * 10^4)

\* The distances spiceypy.vnorm may return at epoch et: the propagated one
\* for a flyby, else any of Distances.
VnormAt(et) ==
    IF orb_elem.kind = "conic"
    THEN {conics_dist(orb_elem, et - frames["entry"].oscelt)}
    ELSE Distances

\* The namespace env after name = value.
Assign(env, name, value) ==
    [n \in DOMAIN env \cup {name} |-> IF n = name THEN value ELSE env[n]]

\* comet_jup_dist = 0.0 before the entry loop.
InitSearchInside ==
    /\ pc = "entry_loop"
    /\ call = NoCall
    /\ ret = NoRet
    /\ A_JUPITER_AU = Lit(52, 10)
    /\ c_df = <<>>
    /\ datetime_stamp = 0
    /\ et_stamp = -1
    /\ comet_jup_dist = Zero
    /\ steps = 0
    /\ examined = <<>>
    /\ states = <<>>
    /\ frames = <<>>
    /\ orb_elem = NoElements
    /\ FuncNotCalled
    /\ DbNotRead

\* datetime_stamp = datetime.datetime(year=2017, month=1, day=1)
\* comet_jup_dist = 10.0**10
\* None of the state vectors is assigned yet.
InitSearch ==
    /\ pc = "entry_loop"
    /\ call = NoCall
    /\ ret = NoRet
    /\ A_JUPITER_AU = Lit(52, 10)
    /\ c_df = <<>>
    /\ datetime_stamp = 0
    /\ et_stamp = -1
    /\ comet_jup_dist = FPow(FInt(10), FInt(10))
    /\ steps = 0
    /\ examined = <<>>
    /\ states = <<>>
    /\ frames = <<>>
    /\ orb_elem = NoElements
    /\ FuncNotCalled
    /\ DbNotRead

\* The loop body taking one hour off datetime_stamp.
LoopBodyBackwards ==
    /\ steps < MaxHours
    /\ LET et == datetime_stamp - 1
       IN /\ datetime_stamp' = datetime_stamp - 1
          /\ et_stamp' = et
          /\ \E dist \in VnormAt(et) : comet_jup_dist' = dist
          /\ examined' = Append(examined, [et |-> et, dist |-> comet_jup_dist'])
    /\ steps' = steps + 1

\* The loop body propagating to the epoch of the previous pass.
LoopBodyStaleEpoch ==
    /\ steps < MaxHours
    /\ LET et == et_stamp
       IN /\ datetime_stamp' = datetime_stamp + 1
          /\ et_stamp' = et
          /\ \E dist \in VnormAt(et) : comet_jup_dist' = dist
          /\ examined' = Append(examined, [et |-> et, dist |-> comet_jup_dist'])
    /\ steps' = steps + 1

\* The body of either loop: one hour is added to datetime_stamp, which is
\* converted to et_stamp (et), and the distance at that epoch is computed.  The
\* model follows each loop for MaxHours passes.
LoopBody ==
    /\ steps < MaxHours
    /\ LET et == datetime_stamp + 1
       IN /\ datetime_stamp' = datetime_stamp + 1
          /\ et_stamp' = et
          /\ \E dist \in VnormAt(et) : comet_jup_dist' = dist
          /\ examined' = Append(examined, [et |-> et, dist |-> comet_jup_dist'])
    /\ steps' = steps + 1

\* The entry loop's condition with >= for >.
EntryConditionGeq == FLeq(SOI_JUPITER_R, comet_jup_dist)

\* comet_jup_dist > SOI_JUPITER_R
EntryCondition == FLess(SOI_JUPITER_R, comet_jup_dist)

\* while comet_jup_dist > SOI_JUPITER_R: (condition true)
\* COMET_67P_STATE_ORB and JUPITER_STATE are computed at the new et_stamp.
EntryLoopStep ==
    /\ pc = "entry_loop"
    /\ EntryCondition
    /\ LoopBody
    /\ states' = Assign(Assign(states, "COMET_67P_STATE_ORB", et_stamp'),
                        "JUPITER_STATE", et_stamp')
    /\ UNCHANGED <<pc, call, ret, A_JUPITER_AU, c_df, frames, orb_elem, funcVars, dbVars>>

\* The entry loop's condition is false: the comet's state is moved to the
\* Jupiter-centric frame (COMET_67P_STATE_ORB - JUPITER_STATE), its elements
\* are computed by oscelt at et_stamp and the exit loop is reached.  Reading a
\* name that was never assigned raises NameError.
EntryLoopExit ==
    /\ pc = "entry_loop"
    /\ ~EntryCondition
    /\ steps' = 0
    /\ IF {"COMET_67P_STATE_ORB", "JUPITER_STATE"} \subseteq DOMAIN states
       THEN /\ pc' = "exit_loop"
            /\ frames' = Assign(frames, "entry",
                                [comet |-> states["COMET_67P_STATE_ORB"],
                                 jupiter |-> states["JUPITER_STATE"],
                                 oscelt |-> et_stamp])
            /\ \E elem \in oscelt(comet_jup_dist) : orb_elem' = elem
       ELSE /\ pc' = "NameError"
            /\ UNCHANGED <<frames, orb_elem>>
    /\ UNCHANGED <<call, ret, A_JUPITER_AU, c_df, datetime_stamp, et_stamp,
                   comet_jup_dist, examined, states, funcVars, dbVars>>

\* while comet_jup_dist <= SOI_JUPITER_R: (condition true)
\* comet_67p_state_orb_jup_cntr is computed by conics at the new et_stamp.
ExitLoopStep ==
    /\ pc = "exit_loop"
    /\ FLeq(comet_jup_dist, SOI_JUPITER_R)
    /\ LoopBody
    /\ states' = Assign(states, "comet_67p_state_orb_jup_cntr", et_stamp')
    /\ UNCHANGED <<pc, call, ret, A_JUPITER_AU, c_df, frames, orb_elem, funcVars, dbVars>>

\* The exit of the exit loop adding the JUPITER_STATE left by the entry loop.
ExitLoopExitOldJupiter ==
    /\ pc = "exit_loop"
    /\ ~FLeq(comet_jup_dist, SOI_JUPITER_R)
    /\ IF "comet_67p_state_orb_jup_cntr" \in DOMAIN states
       THEN /\ pc' = "after_encounter"
            /\ frames' = Assign(frames, "exit",
                                [comet |-> states["comet_67p_state_orb_jup_cntr"],
                                 jupiter |-> states["JUPITER_STATE"],
                                 oscelt |-> et_stamp])
       ELSE /\ pc' = "NameError"
            /\ UNCHANGED frames
    /\ UNCHANGED <<call, ret, A_JUPITER_AU, c_df, datetime_stamp, et_stamp,
                   comet_jup_dist, steps, examined, states, orb_elem, funcVars, dbVars>>

\* The exit loop's condition is false: JUPITER_STATE is computed anew at
\* et_stamp, the comet's state is moved back to the heliocentric frame
\* (comet_67p_state_orb_jup_cntr + JUPITER_STATE) and its elements are
\* computed by oscelt at et_stamp.
ExitLoopExit ==
    /\ pc = "exit_loop"
    /\ ~FLeq(comet_jup_dist, SOI_JUPITER_R)
    /\ states' = Assign(states, "JUPITER_STATE", et_stamp)
    /\ IF "comet_67p_state_orb_jup_cntr" \in DOMAIN states
       THEN /\ pc' = "after_encounter"
            /\ frames' = Assign(frames, "exit",
                                [comet |-> states["comet_67p_state_orb_jup_cntr"],
                                 jupiter |-> states'["JUPITER_STATE"],
                                 oscelt |-> et_stamp])
       ELSE /\ pc' = "NameError"
            /\ UNCHANGED frames
    /\ UNCHANGED <<call, ret, A_JUPITER_AU, c_df, datetime_stamp, et_stamp,
                   comet_jup_dist, steps, examined, orb_elem, funcVars, dbVars>>

NextSearch == EntryLoopStep \/ EntryLoopExit \/ ExitLoopStep \/ ExitLoopExit

SpecSearch == InitSearch /\ [][NextSearch]_vars

\* The script runs on: a loop whose condition is true takes its next pass, a
\* loop whose condition is false is left.
SpecSearchFair ==
    SpecSearch /\ WF_vars(EntryLoopStep) /\ WF_vars(EntryLoopExit)
               /\ WF_vars(ExitLoopStep) /\ WF_vars(ExitLoopExit)

\* A scan window, in one-hour steps, shorter than the time the model follows.
ScanWindowSteps == MaxHours - 2

\* C8: each search loop ends after a number of one-hour steps bounded by a scan
\* window, whatever distances the propagator returns: no loop runs more steps
\* than the window holds.
C8_StepsWithinScanWindow ==
    pc \in {"entry_loop", "exit_loop"} => steps <= ScanWindowSteps

----------------------------------------------------------------------------
(* part23: mylib/general/vec.py *)

\* The characters float() reads as a one-digit number.
DigitValue ==
    [c \in {"0", "1", "2", "3", "4", "5", "6", "7", "8", "9"} |->
        CASE c = "0" -> 0 [] c = "1" -> 1 [] c = "2" -> 2 [] c = "3" -> 3
          [] c = "4" -> 4 [] c = "5" -> 5 [] c = "6" -> 6 [] c = "7" -> 7
          [] c = "8" -> 8 [] c = "9" -> 9]

RECURSIVE SumAbsPow(_, _, _)
\* sum(abs(elem)**p_value for elem in vector), over the first n elements:
\* sum() starts from 0 and adds the terms from left to right.
SumAbsPow(vector, p_value, n) ==
    IF n = 0 THEN Zero
    ELSE FAdd(SumAbsPow(vector, p_value, n - 1), FPow(FAbs(vector[n]), p_value))

\* A power of a finite float that leaves the float range: Python's float **
\* raises OverflowError there (an underflow is 0.0, silently).
PowOverflows(x, p_value) == IsFinite(x) /\ IsInf(FPow(FAbs(x), p_value))

\* vec_norm without the square root.
vec_norm_unrooted(vector, norm) ==
    IF ~(\E i \in DOMAIN norm : norm[i] = "p") THEN Raise("UnboundLocalError")
    ELSE IF Len(norm) < 2 THEN Raise("IndexError")
    ELSE IF norm[2] \notin DOMAIN DigitValue THEN Raise("ValueError")
    ELSE LET p_value == FInt(DigitValue[norm[2]])
         IN IF \E i \in DOMAIN vector : PowOverflows(vector[i], p_value)
            THEN Raise("OverflowError")
            ELSE Value(SumAbsPow(vector, p_value, Len(vector)))

\* vec_norm(vector, norm): a string is a sequence of characters, norm[1] of the
\* source is the second one.  Without a 'p' in norm, norm_res is never
\* assigned and the return statement raises UnboundLocalError.
vec_norm(vector, norm) ==
    IF ~(\E i \in DOMAIN norm : norm[i] = "p") THEN Raise("UnboundLocalError")
    ELSE IF Len(norm) < 2 THEN Raise("IndexError")
    ELSE IF norm[2] \notin DOMAIN DigitValue THEN Raise("ValueError")
    ELSE LET p_value == FInt(DigitValue[norm[2]])
         IN IF \E i \in DOMAIN vector : PowOverflows(vector[i], p_value)
            THEN Raise("OverflowError")
            ELSE Value(FSqrt(SumAbsPow(vector, p_value, Len(vector))))

\* def vec_norm(vector, norm='p2')
DefaultNorm == <<"p", "2">>

\* Bounds of the vectors: length and size of the (whole) components.
MaxVecLen == 2
MaxComp == 4

Components == {FInt(i) : i \in -MaxComp..MaxComp}

\* The vector of the test's last case.
TestVectors == {<<FInt(2), FInt(4), FInt(-5), FInt(6)>>}

Vectors == UNION {[1..n -> Components] : n \in 0..MaxVecLen} \cup TestVectors
Norms == {<<"p", "1">>, <<"p", "2">>, <<"p", "3">>, <<"l", "2">>, <<"p">>, <<"2", "p">>}

CallVecNorm ==
    /\ pc = "idle"
    /\ \E vector \in Vectors, norm \in Norms :
          /\ call' = [fn |-> "vec_norm", args |-> <<vector, norm>>]
          /\ ret' = vec_norm(vector, norm)
    /\ pc' = "called"
    /\ UNCHANGED <<A_JUPITER_AU, c_df, searchVars, funcVars, dbVars>>

\* vec_norm(vector=...): the parameter norm is bound to its default.
CallVecNormDefault ==
    /\ pc = "idle"
    /\ \E vector \in Vectors :
          /\ call' = [fn |-> "vec_norm", args |-> <<vector, DefaultNorm>>]
          /\ ret' = vec_norm(vector, DefaultNorm)
    /\ pc' = "called"
    /\ UNCHANGED <<A_JUPITER_AU, c_df, searchVars, funcVars, dbVars>>

RECURSIVE SumProducts(_, _, _)
\* sum(v1_i * v2_i for v1_i, v2_i in zip(vector1, vector2)), over the first n
\* pairs: sum() starts from 0 and adds the products from left to right.
SumProducts(vector1, vector2, n) ==
    IF n = 0 THEN Zero
    ELSE FAdd(SumProducts(vector1, vector2, n - 1), FMul(vector1[n], vector2[n]))

\* zip() stops at the end of the shorter list.
ZipLen(vector1, vector2) ==
    IF Len(vector1) < Len(vector2) THEN Len(vector1) ELSE Len(vector2)

\* vec_dotprod multiplying each component of vector1 by itself.
vec_dotprod_self(vector1, vector2) ==
    Value(SumProducts(vector1, vector1, ZipLen(vector1, vector2)))

\* vec_dotprod(vector1, vector2)
vec_dotprod(vector1, vector2) ==
    Value(SumProducts(vector1, vector2, ZipLen(vector1, vector2)))

\* Angles of math.acos carry AngleBits fraction bits while they are computed.
AngleBits == 2 * FixBits

\* atan(2^-i) * 2^AngleBits for i = 0..AngleBits-1.
AtanTable ==
    <<823550, 486170, 256879, 130396, 65451, 32757, 16383, 8192, 4096, 2048,
      1024, 512, 256, 128, 64, 32, 16, 8, 4, 2>>

\* math.pi / 2.0 and math.pi.
HalfPi == Normalize(1, 421657428, -28)
PiFloat == Normalize(1, 843314857, -28)

RECURSIVE Atan2Fix(_, _, _, _)
\* atan2(y, x) * 2^AngleBits for x >= 0: the vector is turned onto the x axis
\* by the angles of AtanTable, which are added up.
Atan2Fix(x, y, th, i) ==
    IF i = AngleBits THEN th
    ELSE IF y > 0
         THEN Atan2Fix(x + y \div 2^i, y - x \div 2^i, th + AtanTable[i + 1], i + 1)
         ELSE Atan2Fix(x - y \div 2^i, y + x \div 2^i, th - AtanTable[i + 1], i + 1)

\* acos of a float in [-1, 1]: exact at 0, 1 and -1, else atan2(sqrt(1 - q^2), q).
FAcos(q) ==
    IF IsZero(q) THEN HalfPi
    ELSE IF q = One THEN Zero
    ELSE IF q = FNeg(One) THEN PiFloat
    ELSE LET sh == q.e + WorkBits
             Q == IF sh >= 0 THEN q.m * 2^sh
                  ELSE IF -sh > MantBits + 1 THEN 0
                  ELSE RoundShift(q.m, -sh)
             Y == SqrtBits(2^(2 * WorkBits) - Q * Q, 0, WorkBits)
             th == Abs(Atan2Fix(Q * 2^(AngleBits - WorkBits),
                                Y * 2^(AngleBits - WorkBits), 0, 0))
             \* pi * 2^AngleBits
             ang == IF q.s > 0 THEN th ELSE 3294199 - th
         IN Normalize(1, ang, -AngleBits)

\* math.acos: nan for nan, ValueError (math domain error) outside [-1, 1].
math_acos(q) ==
    IF IsNaN(q) THEN Value(NaN)
    ELSE IF IsInf(q) \/ FLess(One, FAbs(q)) THEN Raise("ValueError")
    ELSE Value(FAcos(q))

\* vec_angle(vector1, vector2): Python's float division raises
\* ZeroDivisionError for a zero divisor.
vec_angle(vector1, vector2) ==
    LET dotp == vec_dotprod(vector1, vector2)
        norm1 == vec_norm(vector1, DefaultNorm)
        norm2 == vec_norm(vector2, DefaultNorm)
    IN IF norm1.kind = "raise" THEN norm1
       ELSE IF norm2.kind = "raise" THEN norm2
       ELSE LET den == FMul(norm1.val, norm2.val)
            IN IF IsZero(den) THEN Raise("ZeroDivisionError")
               ELSE math_acos(FDiv(dotp.val, den))

\* A float so small that its square is below the smallest float (1e-200 is one).
TinyComp == Normalize(1, 1, -600)

\* Components and vectors of the calls that take two vectors.
PairComponents == {FInt(-1), Zero, FInt(2), Lit(1, 100), TinyComp}
PairVectors == UNION {[1..n -> PairComponents] : n \in 0..MaxVecLen}

CallVecDotprod ==
    /\ pc = "idle"
    /\ \E vector1 \in PairVectors, vector2 \in PairVectors :
          /\ call' = [fn |-> "vec_dotprod", args |-> <<vector1, vector2>>]
          /\ ret' = vec_dotprod(vector1, vector2)
    /\ pc' = "called"
    /\ UNCHANGED <<A_JUPITER_AU, c_df, searchVars, funcVars, dbVars>>

CallVecAngle ==
    /\ pc = "idle"
    /\ \E vector1 \in PairVectors, vector2 \in PairVectors :
          /\ call' = [fn |-> "vec_angle", args |-> <<vector1, vector2>>]
          /\ ret' = vec_angle(vector1, vector2)
    /\ pc' = "called"
    /\ UNCHANGED <<A_JUPITER_AU, c_df, searchVars, funcVars, dbVars>>

NextVec == CallVecNorm \/ CallVecNormDefault \/ CallVecDotprod \/ CallVecAngle \/ Return

SpecVec == Init /\ [][NextVec]_vars

\* The X-th root of a float s >= 0.
RootOf(s, X) ==
    IF X = 1 THEN s
    ELSE IF X = 2 THEN FSqrt(s)
    ELSE FPow(s, FDiv(One, FInt(X)))

\* C10: vec_norm(vector, norm='pX') returns the p-norm with p = X,
\* (sum over i of |v_i|^X)^(1/X), for any X larger than 0: 'p1' gives the sum
\* of the absolute values, 'p3' the cube root of the sum of their cubes.
C10_PNorm ==
    (call.fn = "vec_norm" /\ Len(call.args[2]) = 2 /\ call.args[2][1] = "p"
        /\ call.args[2][2] \in DOMAIN DigitValue /\ DigitValue[call.args[2][2]] > 0)
        => LET X == DigitValue[call.args[2][2]]
               vector == call.args[1]
           IN ret = Value(RootOf(SumAbsPow(vector, FInt(X), Len(vector)), X))

RECURSIVE SumSquares(_, _)
\* v_1 * v_1 + .. + v_n * v_n.
SumSquares(vector, n) ==
    IF n = 0 THEN Zero
    ELSE FAdd(SumSquares(vector, n - 1), FMul(vector[n], vector[n]))

C12_DotProduct ==
    (pc = "called" /\ call.fn = "vec_dotprod" /\ Len(call.args[1]) = Len(call.args[2]))
        => LET a == call.args[1]
               b == call.args[2]
           IN /\ ret = Value(SumProducts(a, b, Len(a)))
              /\ ret = vec_dotprod(b, a)

\* The dot product of two different vectors of length 2 has been returned, and
\* it is not zero.
C12_Witness ==
    /\ pc = "called"
    /\ call.fn = "vec_dotprod"
    /\ call.args = <<<<FInt(2), Lit(1, 100)>>, <<Lit(1, 100), FInt(-1)>>>>
    /\ ret = Value(FAdd(FMul(FInt(2), Lit(1, 100)), FMul(Lit(1, 100), FInt(-1))))
    /\ ~IsZero(ret.val)

\* A vector with a component other than 0.
NonZero(vector) == \E i \in DOMAIN vector : ~IsZero(vector[i])

\* No product of two components is 0.0 only because it underflowed.
NoProductLost(a, b) ==
    \A i \in DOMAIN a : IsZero(FMul(a[i], b[i])) => (IsZero(a[i]) \/ IsZero(b[i]))

\* C13: for any two non-zero vectors whose dot product is 0, vec_angle returns
\* exactly pi/2, and vec_angle is symmetric in its two arguments.
C13_OrthogonalAngle ==
    (pc = "called" /\ call.fn = "vec_angle" /\ Len(call.args[1]) = Len(call.args[2]))
        => LET a == call.args[1]
               b == call.args[2]
           IN /\ (NonZero(a) /\ NonZero(b) /\ vec_dotprod(a, b) = Value(Zero)
                        /\ NoProductLost(a, b))
                    => ret = Value(HalfPi)
              /\ ret = vec_angle(b, a)

----------------------------------------------------------------------------
(* _auxiliary/func.py and part9: add_col2tab *)

\* A function that ends without a return statement returns None.
NoneValue == [kind |-> "return_none", val |-> NaN, exc |-> "none"]

\* Column names a caller may pass, and how SQLite, which ignores the case of
\* ASCII letters in names, reads them.
ColNames == {"NAME", "e", "TISSERAND_JUP", "tisserand_jup", "APHELION_AU"}
Folded ==
    [c \in ColNames |->
        CASE c = "NAME" -> "name"
          [] c = "TISSERAND_JUP" -> "tisserand_jup"
          [] c = "APHELION_AU" -> "aphelion_au"
          [] OTHER -> c]
ColTypes == {"REAL", "TEXT"}

\* add_col2tab on a table with the columns cols: the rows of PRAGMA table_info
\* are compared with col_name as Python strings; ALTER TABLE .. ADD COLUMN fails
\* with OperationalError (duplicate column name) when SQLite has the name.
add_col2tab(cols, col_name, col_type) ==
    IF \E i \in DOMAIN cols : cols[i][1] = col_name
    THEN [cols |-> cols, log |-> <<"PRAGMA">>, ret |-> NoneValue]
    ELSE IF \E i \in DOMAIN cols : Folded[cols[i][1]] = Folded[col_name]
    THEN [cols |-> cols, log |-> <<"PRAGMA", "ALTER">>,
          ret |-> Raise("OperationalError")]
    ELSE [cols |-> Append(cols, <<col_name, col_type>>),
          log |-> <<"PRAGMA", "ALTER", "COMMIT">>, ret |-> NoneValue]

\* The table exists: comets_main as part7 created it, here with its first
\* column or its first two.
InitDb ==
    /\ pc = "idle"
    /\ call = NoCall
    /\ ret = NoRet
    /\ A_JUPITER_AU = Lit(52, 10)
    /\ c_df = <<>>
    /\ SearchNotStarted
    /\ tab_cols \in {<<<<"NAME", "TEXT">>>>, <<<<"NAME", "TEXT">>, <<"e", "REAL">>>>}
    /\ sql_log = <<>>
    /\ fs_dirs = {}
    /\ fs_files = <<>>
    /\ downloads = <<>>
    /\ DbNotRead

CallAddCol2Tab ==
    /\ pc = "idle"
    /\ \E col_name \in ColNames, col_type \in ColTypes :
          LET res == add_col2tab(tab_cols, col_name, col_type)
          IN /\ call' = [fn |-> "add_col2tab", args |-> <<tab_cols, col_name, col_type>>]
             /\ tab_cols' = res.cols
             /\ sql_log' = res.log
             /\ ret' = res.ret
    /\ pc' = "called"
    /\ UNCHANGED <<A_JUPITER_AU, c_df, searchVars, fs_dirs, fs_files, downloads, dbVars>>

NextDb == CallAddCol2Tab \/ Return

SpecDb == InitDb /\ [][NextDb]_vars

\* The names of the columns cols.
NamesOf(cols) == {cols[i][1] : i \in DOMAIN cols}

\* C14: for an existing table add_col2tab leaves the table with the previous
\* columns plus col_name: it issues ALTER TABLE ADD COLUMN and commits if and
\* only if no existing column is named col_name, and otherwise changes nothing;
\* no existing column is ever removed or altered.
C14_ColumnAddedOnce ==
    (pc = "called" /\ call.fn = "add_col2tab")
        => LET prev == call.args[1]
               col_name == call.args[2]
               existed == col_name \in NamesOf(prev)
               issued == \E i \in DOMAIN sql_log : sql_log[i] = "ALTER"
               committed == \E i \in DOMAIN sql_log : sql_log[i] = "COMMIT"
           IN /\ ret = NoneValue
              /\ NamesOf(tab_cols) = NamesOf(prev) \cup {col_name}
              /\ (issued /\ committed) <=> ~existed
              /\ existed => tab_cols = prev
              /\ SubSeq(tab_cols, 1, Len(prev)) = prev

----------------------------------------------------------------------------
(* _auxiliary/func.py and part6: download_file, download_kernel *)

\* Strings are sequences of characters.  dl_url.split('/')[-1]: the characters
\* after the last '/'.
LastSegment(str) ==
    LET slashes == {i \in DOMAIN str : str[i] = "/"}
        last == IF slashes = {} THEN 0
                ELSE CHOOSE i \in slashes : \A j \in slashes : j <= i
    IN SubSeq(str, last + 1, Len(str))

RECURSIVE Parts(_)
\* The components of a relative path string: the file system reads 'k/s/' and
\* 'k/s' as the same place.
Parts(str) ==
    LET slashes == {i \in DOMAIN str : str[i] = "/"}
        first == CHOOSE i \in slashes : \A j \in slashes : i <= j
    IN IF str = <<>> THEN <<>>
       ELSE IF slashes = {} THEN <<str>>
       ELSE (IF first = 1 THEN <<>> ELSE <<SubSeq(str, 1, first - 1)>>)
                \o Parts(SubSeq(str, first + 1, Len(str)))

\* The working directory <<>> always exists.
IsDir(dirs, path) == path = <<>> \/ path \in dirs
Parent(path) == SubSeq(path, 1, Len(path) - 1)

\* pathlib.Path(..).mkdir(parents=.., exist_ok=True)
mkdir(dirs, files, path, parents) ==
    IF IsDir(dirs, path) THEN [dirs |-> dirs, exc |-> "none"]
    ELSE IF path \in DOMAIN files THEN [dirs |-> dirs, exc |-> "FileExistsError"]
    ELSE IF \E n \in 1..(Len(path) - 1) : SubSeq(path, 1, n) \in DOMAIN files
    THEN [dirs |-> dirs, exc |-> "NotADirectoryError"]
    ELSE IF IsDir(dirs, Parent(path))
    THEN [dirs |-> dirs \cup {path}, exc |-> "none"]
    ELSE IF parents
    THEN [dirs |-> dirs \cup {SubSeq(path, 1, n) : n \in 1..Len(path)}, exc |-> "none"]
    ELSE [dirs |-> dirs, exc |-> "FileNotFoundError"]

\* urllib.request.urlretrieve(url, filename): the url is opened first, then
\* the file is opened for writing and filled.
urlretrieve(dirs, files, url, path, net) ==
    IF net # "ok" THEN [files |-> files, exc |-> "URLError"]
    ELSE IF IsDir(dirs, path) THEN [files |-> files, exc |-> "IsADirectoryError"]
    ELSE IF ~IsDir(dirs, Parent(path)) THEN [files |-> files, exc |-> "FileNotFoundError"]
    ELSE [files |-> [q \in DOMAIN files \cup {path} |->
                        IF q = path THEN url ELSE files[q]],
          exc |-> "none"]

\* What a download function leaves behind: the file system, what it did, and
\* how it ended.
Outcome(dirs, files, did, exc) ==
    [dirs |-> dirs, files |-> files, did |-> did,
     ret |-> IF exc = "none" THEN NoneValue ELSE Raise(exc)]

\* download_file without the test whether the file is present.
download_file_always(dirs, files, dl_path, dl_url, net) ==
    LET file_name == LastSegment(dl_url)
        made == mkdir(dirs, files, Parts(dl_path), TRUE)
        target == Parts(dl_path \o file_name)
        got == urlretrieve(made.dirs, files, dl_url, target, net)
    IN IF made.exc # "none" THEN Outcome(dirs, files, "nothing", made.exc)
       ELSE Outcome(made.dirs, got.files,
                    IF got.exc = "none" THEN "retrieved" ELSE "failed", got.exc)

\* download_file(dl_path, dl_url)
download_file(dirs, files, dl_path, dl_url, net) ==
    LET file_name == LastSegment(dl_url)
        made == mkdir(dirs, files, Parts(dl_path), TRUE)
        target == Parts(dl_path \o file_name)
        got == urlretrieve(made.dirs, files, dl_url, target, net)
    IN IF made.exc # "none" THEN Outcome(dirs, files, "nothing", made.exc)
       ELSE IF target \in DOMAIN files THEN Outcome(made.dirs, files, "nothing", "none")
       ELSE Outcome(made.dirs, got.files,
                    IF got.exc = "none" THEN "retrieved" ELSE "failed", got.exc)

\* part6: download_kernel(dl_path, dl_url), which makes no parent directories.
download_kernel(dirs, files, dl_path, dl_url, net) ==
    LET file_name == LastSegment(dl_url)
        made == mkdir(dirs, files, Parts(dl_path), FALSE)
        target == Parts(dl_path \o file_name)
        got == urlretrieve(made.dirs, files, dl_url, target, net)
    IN IF made.exc # "none" THEN Outcome(dirs, files, "nothing", made.exc)
       ELSE IF target \in DOMAIN files THEN Outcome(made.dirs, files, "nothing", "none")
       ELSE Outcome(made.dirs, got.files,
                    IF got.exc = "none" THEN "retrieved" ELSE "failed", got.exc)

\* The model follows this many calls of the download functions.
MaxCalls == 3

\* Download paths: 'k/', 'k' (no '/' at its end), 'k/s/'.  Urls: two hosts
\* offering a file a, a file b, and a url that ends in '/'.
DlPaths == {<<"k", "/">>, <<"k">>, <<"k", "/", "s", "/">>}
DlUrls == {<<"h", "/", "a">>, <<"g", "/", "a">>, <<"h", "/", "b">>, <<"h", "/">>}
DlArgs == DlPaths \X DlUrls
Nets == {"ok", "unreachable"}

\* An empty working directory, no call made yet.
InitFiles ==
    /\ pc = "idle"
    /\ call = NoCall
    /\ ret = NoRet
    /\ A_JUPITER_AU = Lit(52, 10)
    /\ c_df = <<>>
    /\ SearchNotStarted
    /\ tab_cols = <<>>
    /\ sql_log = <<>>
    /\ fs_dirs = {}
    /\ fs_files = <<>>
    /\ downloads = [calls |-> 0, retrieved |-> [a \in DlArgs |-> 0], did |-> "nothing"]
    /\ DbNotRead

\* The bookkeeping of one call with the outcome res.
Downloaded(fn, dl_path, dl_url, res) ==
    /\ call' = [fn |-> fn, args |-> <<dl_path, dl_url, fs_files>>]
    /\ fs_dirs' = res.dirs
    /\ fs_files' = res.files
    /\ ret' = res.ret
    /\ downloads' =
          [calls |-> downloads.calls + 1,
           retrieved |-> IF res.did = "retrieved"
                         THEN [downloads.retrieved EXCEPT ![<<dl_path, dl_url>>] = @ + 1]
                         ELSE downloads.retrieved,
           did |-> res.did]
    /\ pc' = "called"
    /\ UNCHANGED <<A_JUPITER_AU, c_df, searchVars, tab_cols, sql_log, dbVars>>

CallDownloadFile ==
    /\ pc = "idle"
    /\ downloads.calls < MaxCalls
    /\ \E dl_path \in DlPaths, dl_url \in DlUrls, net \in Nets :
          Downloaded("download_file", dl_path, dl_url,
                     download_file(fs_dirs, fs_files, dl_path, dl_url, net))

CallDownloadKernel ==
    /\ pc = "idle"
    /\ downloads.calls < MaxCalls
    /\ \E dl_path \in DlPaths, dl_url \in DlUrls, net \in Nets :
          Downloaded("download_kernel", dl_path, dl_url,
                     download_kernel(fs_dirs, fs_files, dl_path, dl_url, net))

NextFiles == CallDownloadFile \/ CallDownloadKernel \/ Return

SpecFiles == InitFiles /\ [][NextFiles]_vars

\* A call of one of the download functions has just ended.
DownloadCalled == pc = "called" /\ call.fn \in {"download_file", "download_kernel"}

\* C15: download_file downloads only when no file exists at dl_path + <last
\* '/'-segment of dl_url>: with the file present nothing is retrieved and the
\* file is not overwritten, so repeated calls with the same arguments download
\* at most once.
C15_DownloadOnlyWhenAbsent ==
    /\ \A a \in DlArgs : downloads.retrieved[a] <= 1
    /\ DownloadCalled
          => LET before == call.args[3]
                 target == Parts(call.args[1] \o LastSegment(call.args[2]))
             IN /\ target \in DOMAIN before
                    => (downloads.did = "nothing" /\ fs_files = before)
                /\ downloads.did # "nothing" => target \notin DOMAIN before
                /\ \A q \in DOMAIN before : q \in DOMAIN fs_files /\ fs_files[q] = before[q]

\* download_file has been called a second time with the same arguments: the
\* first call retrieved the file, this one found it and did nothing.
C15_Witness ==
    /\ pc = "called"
    /\ call.fn = "download_file"
    /\ downloads.calls = 2
    /\ downloads.retrieved[<<call.args[1], call.args[2]>>] = 1
    /\ downloads.did = "nothing"
    /\ ret = NoneValue
    /\ Parts(call.args[1] \o LastSegment(call.args[2])) \in DOMAIN call.args[3]
    /\ fs_files = call.args[3]

\* C16: after a successful download_file(dl_path, dl_url) the downloaded file
\* is stored inside the directory dl_path, which exists, under the name given
\* by the last '/'-segment of dl_url, for every directory path dl_path.
C16_StoredInsideDlPath ==
    (pc = "called" /\ call.fn = "download_file" /\ downloads.did = "retrieved")
        => LET directory == Parts(call.args[1])
               file_name == LastSegment(call.args[2])
               stored == Append(directory, file_name)
           IN /\ IsDir(fs_dirs, directory)
              /\ stored \in DOMAIN fs_files
              /\ fs_files[stored] = call.args[2]

----------------------------------------------------------------------------
(* part16: mag2irr *)

\* mag2irr(mag, use_attn=False)
mag2irr(mag, use_attn) ==
    LET attn == IF use_attn THEN Lit(4, 10) ELSE Zero
    IN Value(FPow(FInt(10),
                  FMul(Lit(4, 10), FAdd(FSub(FNeg(mag), FInt(19)), attn))))

\* Magnitudes from -MaxMag to MaxMag in steps of a half.
MaxMag == 30
IrrMags == {Lit(i, 2) : i \in (-2 * MaxMag)..(2 * MaxMag)}

CallMag2Irr ==
    /\ pc = "idle"
    /\ \E mag \in IrrMags, use_attn \in BOOLEAN :
          /\ call' = [fn |-> "mag2irr", args |-> <<mag, use_attn>>]
          /\ ret' = mag2irr(mag, use_attn)
    /\ pc' = "called"
    /\ UNCHANGED <<A_JUPITER_AU, c_df, searchVars, funcVars, dbVars>>

NextIrr == CallMag2Irr \/ Return

SpecIrr == Init /\ [][NextIrr]_vars

\* C17: for every magnitude the irradiance with use_attn=True, the atmospheric
\* attenuation applied, is never larger than the irradiance with
\* use_attn=False.
C17_AttenuationNeverBrightens ==
    (pc = "called" /\ call.fn = "mag2irr" /\ call.args[2])
        => FLeq(ret.val, mag2irr(call.args[1], FALSE).val)

----------------------------------------------------------------------------
(* part19: its own phi_func, red_mag and app_mag, which asteroid_aux repeats *)

part19_a_factor == [i \in {"1", "2"} |-> IF i = "1" THEN Lit(333, 100) ELSE Lit(187, 100)]
part19_b_factor == [i \in {"1", "2"} |-> IF i = "1" THEN Lit(63, 100) ELSE Lit(122, 100)]

\* part19's phase function with the two factor tables taken for each other.
part19_phi_func_swapped(index, phase_angle) ==
    IF index \notin DOMAIN part19_b_factor THEN Raise("KeyError")
    ELSE Value(FExp(FMul(FMul(FInt(-1), part19_b_factor[index]),
                         UPos(FPow(np_tan(HalfAngle(phase_angle)),
                                   part19_a_factor[index])))))

\* phi = np.exp(-1.0 * a_factor[index] \
\*              *+ ((np.tan(0.5 * phase_angle) ** b_factor[index])))
part19_phi_func(index, phase_angle) ==
    IF index \notin DOMAIN part19_a_factor THEN Raise("KeyError")
    ELSE Value(FExp(FMul(FMul(FInt(-1), part19_a_factor[index]),
                         UPos(FPow(np_tan(HalfAngle(phase_angle)),
                                   part19_b_factor[index])))))

\* r_mag = abs_mag - 2.5 * np.log10((1.0 - slope_g) * phi_func(index='1', ..)
\*                                  + slope_g * phi_func(index='2', ..))
part19_red_mag(abs_mag, phase_angle, slope_g) ==
    LET phi1 == part19_phi_func("1", phase_angle)
        phi2 == part19_phi_func("2", phase_angle)
    IN IF phi1.kind = "raise" THEN phi1
       ELSE IF phi2.kind = "raise" THEN phi2
       ELSE Value(FSub(abs_mag,
                       FMul(Lit(5, 2),
                            FLog10(FAdd(FMul(FSub(One, slope_g), phi1.val),
                                        FMul(slope_g, phi2.val))))))

\* mag = red_mag(abs_mag, phase_angle, slope_g) \
\*       + 5.0 * np.log10(d_ast_sun * d_ast_earth)
part19_app_mag(abs_mag, phase_angle, slope_g, d_ast_sun, d_ast_earth) ==
    LET r_mag == part19_red_mag(abs_mag, phase_angle, slope_g)
    IN IF r_mag.kind = "raise" THEN r_mag
       ELSE Value(FAdd(r_mag.val,
                       FMul(FInt(5), FLog10(FMul(d_ast_sun, d_ast_earth)))))

CallPart19PhiFunc ==
    /\ pc = "idle"
    /\ \E index \in Indices, phase_angle \in PhaseAngles :
          /\ call' = [fn |-> "part19.phi_func", args |-> <<index, phase_angle>>]
          /\ ret' = part19_phi_func(index, phase_angle)
    /\ pc' = "called"
    /\ UNCHANGED <<A_JUPITER_AU, c_df, searchVars, funcVars, dbVars>>

CallPart19RedMag ==
    /\ pc = "idle"
    /\ \E abs_mag \in AbsMags, phase_angle \in PhaseAngles, slope_g \in Slopes :
          /\ call' = [fn |-> "part19.red_mag", args |-> <<abs_mag, phase_angle, slope_g>>]
          /\ ret' = part19_red_mag(abs_mag, phase_angle, slope_g)
    /\ pc' = "called"
    /\ UNCHANGED <<A_JUPITER_AU, c_df, searchVars, funcVars, dbVars>>

CallPart19AppMag ==
    /\ pc = "idle"
    /\ \E abs_mag \in AbsMags, phase_angle \in PhaseAngles, slope_g \in Slopes,
          d_ast_sun \in Dists, d_ast_earth \in Dists :
          /\ call' = [fn |-> "part19.app_mag",
                      args |-> <<abs_mag, phase_angle, slope_g, d_ast_sun, d_ast_earth>>]
          /\ ret' = part19_app_mag(abs_mag, phase_angle, slope_g, d_ast_sun, d_ast_earth)
    /\ pc' = "called"
    /\ UNCHANGED <<A_JUPITER_AU, c_df, searchVars, funcVars, dbVars>>

NextPart19 == CallPart19PhiFunc \/ CallPart19RedMag \/ CallPart19AppMag \/ Return

SpecPart19 == Init /\ [][NextPart19]_vars

\* C18: phi_func, red_mag and app_mag of asteroid_aux return, for every input,
\* what the functions of the same names defined in part19 return.
C18_AuxiliaryEqualsPart19 ==
    pc = "called"
        => /\ call.fn = "part19.phi_func"
                => ret = phi_func(call.args[1], call.args[2])
           /\ call.fn = "part19.red_mag"
                => ret = red_mag(call.args[1], call.args[2], call.args[3])
           /\ call.fn = "part19.app_mag"
                => ret = app_mag(call.args[1], call.args[2], call.args[3],
                                 call.args[4], call.args[5])

\* part19's app_mag has returned a finite magnitude at a phase angle of 60
\* degrees, asteroid_aux's app_mag returns the same.
C18_Witness ==
    /\ pc = "called"
    /\ call.fn = "part19.app_mag"
    /\ call.args[2] = 8
    /\ ret.kind = "value"
    /\ IsFinite(ret.val)
    /\ ret = app_mag(call.args[1], call.args[2], call.args[3], call.args[4], call.args[5])

----------------------------------------------------------------------------
(* Claims about the entry loop of part14, checked under SpecSearch *)

\* The epoch examined before the i-th one; the search starts at hour 0,
\* 2017-01-01T00:00.
EpochBefore(i) == IF i = 1 THEN 0 ELSE examined[i - 1].et

C20_FirstEpochInside ==
    (pc = "exit_loop" /\ steps = 0)
        => LET n == Len(examined)
           IN /\ n >= 1
              /\ \A i \in 1..n : examined[i].et = i
              /\ examined[n] = [et |-> datetime_stamp, dist |-> comet_jup_dist]
              /\ et_stamp = datetime_stamp
              /\ FLeq(comet_jup_dist, SOI_JUPITER_R)
              /\ \A i \in 1..(n - 1) : FLess(SOI_JUPITER_R, examined[i].dist)

\* The entry loop has ended at its third epoch, with 67P exactly on the border
\* of the sphere of influence.
C20_Witness ==
    /\ pc = "exit_loop"
    /\ steps = 0
    /\ Len(examined) = 3
    /\ datetime_stamp = 3
    /\ comet_jup_dist = SOI_JUPITER_R

\* The epochs of the flyby: the one the elements belong to and those the exit
\* loop has examined.
FlybyEpochs == {i \in DOMAIN examined : examined[i].et >= frames["entry"].oscelt}

\* Once the distance has grown from one hourly epoch of the flyby to the
\* next, it grows at every later one.
GrowsBeyondPeriapsis ==
    \A i \in FlybyEpochs :
        (i + 2 \in DOMAIN examined /\ FLess(examined[i].dist, examined[i + 1].dist))
            => FLess(examined[i + 1].dist, examined[i + 2].dist)

C22_LoopBodiesRunOnce ==
    /\ pc # "NameError"
    /\ pc \in {"exit_loop", "after_encounter"}
          => /\ "entry" \in DOMAIN frames
             /\ \E i \in DOMAIN examined : examined[i].et = frames["entry"].oscelt
    /\ pc = "after_encounter"
          => /\ steps >= 1
             /\ {"COMET_67P_STATE_ORB", "JUPITER_STATE",
                 "comet_67p_state_orb_jup_cntr"} \subseteq DOMAIN states
             /\ frames["exit"].oscelt > frames["entry"].oscelt

\* Both loops have ended, the exit loop after a single pass.
C22_Witness ==
    /\ pc = "after_encounter"
    /\ steps = 1
    /\ frames["exit"].oscelt = frames["entry"].oscelt + 1

\* C23: the two state vectors combined at a change of frame belong to the same
\* epoch, the final et_stamp of the loop before, which is also the epoch
\* passed to oscelt.
C23_SameEpochCombined ==
    /\ \A f \in DOMAIN frames :
          /\ frames[f].comet = frames[f].oscelt
          /\ frames[f].jupiter = frames[f].oscelt
    /\ (pc = "exit_loop" /\ steps = 0) => frames["entry"].oscelt = et_stamp
    /\ pc = "after_encounter" => frames["exit"].oscelt = et_stamp

\* Both changes of frame have been made, three hours apart.
C23_Witness ==
    /\ pc = "after_encounter"
    /\ DOMAIN frames = {"entry", "exit"}
    /\ frames["exit"].jupiter = frames["entry"].jupiter + 3

----------------------------------------------------------------------------
(* part15: the element array of C/2019 Y4 (ATLAS) read from comets_main *)

\* np.radians of an angle in whole degrees: angles in radians are counted in
\* units of pi / Pi, 180 degrees are Pi of them.
np_radians(deg) == (deg * Pi) \div 180

\* The angles of the database lie on a grid of 15 degrees.
DegSteps == 3
Degs == {15 * k : k \in 0..DegSteps}

\* A column name is the sequence of its words: 'INCLINATION_DEG' is
\* <<"INCLINATION", "DEG">>.  'DEG' in col
HasDeg(col) == \E k \in DOMAIN col : col[k] = "DEG"

\* col.replace('DEG', 'RAD')
ReplaceDegRad(col) == [k \in DOMAIN col |-> IF col[k] = "DEG" THEN "RAD" ELSE col[k]]

\* The columns of ATLAS_SPICE_ORB_EL, in the order spiceypy.conics expects.
SpiceOrder ==
    << <<"PERIHELION", "KM">>, <<"ECCENTRICITY">>, <<"INCLINATION", "RAD">>,
       <<"LONG", "OF", "ASC", "NODE", "RAD">>, <<"ARG", "OF", "PERIH", "RAD">>,
       <<"MEAN", "ANOMALY", "DEG">>, <<"EPOCH", "ET">>, <<"SUN", "GM">> >>

\* The row of C/2019 Y4 (ATLAS) as part7 stores it: the angles in degrees,
\* MEAN_ANOMALY_DEG left at its default 0.0 (EPOCH_ET is the perihelion
\* passage).
AtlasRows ==
    [NAME : {"C/2019 Y4 (ATLAS)"}, ORBIT_TYPE : {"C"},
     PERIHELION_AU : {Lit(1, 4)}, ECCENTRICITY : {Lit(1023, 1024)},
     INCLINATION_DEG : Degs, LONG_OF_ASC_NODE_DEG : Degs,
     ARG_OF_PERIH_DEG : Degs, MEAN_ANOMALY_DEG : {0}, EPOCH_ET : {Sci(644, 6)}]

\* CON = sqlite3.connect('../_databases/_comets/mpc_comets.db')
InitAtlas ==
    /\ pc = "part15_connected"
    /\ call = NoCall
    /\ ret = NoRet
    /\ A_JUPITER_AU = Lit(52, 10)
    /\ c_df = <<>>
    /\ SearchNotStarted
    /\ FuncNotCalled
    /\ comets_main \in [1..1 -> AtlasRows]
    /\ P_TYPE_DF = <<>>
    /\ C_TYPE_DF = <<>>
    /\ ATLAS_ORB_EL = <<>>
    /\ ATLAS_SPICE_ORB_EL = <<>>

\* ATLAS_ORB_EL = pd.read_sql('SELECT NAME, PERIHELION_AU, ... FROM comets_main
\* WHERE NAME="C/2019 Y4 (ATLAS)"', CON)
ReadAtlas ==
    /\ pc = "part15_connected"
    /\ \E r \in DOMAIN comets_main :
          /\ comets_main[r].NAME = "C/2019 Y4 (ATLAS)"
          /\ ATLAS_ORB_EL' =
                (<<"NAME">> :> comets_main[r].NAME)
                @@ (<<"PERIHELION", "AU">> :> comets_main[r].PERIHELION_AU)
                @@ (<<"ECCENTRICITY">> :> comets_main[r].ECCENTRICITY)
                @@ (<<"INCLINATION", "DEG">> :> comets_main[r].INCLINATION_DEG)
                @@ (<<"LONG", "OF", "ASC", "NODE", "DEG">> :>
                        comets_main[r].LONG_OF_ASC_NODE_DEG)
                @@ (<<"ARG", "OF", "PERIH", "DEG">> :> comets_main[r].ARG_OF_PERIH_DEG)
                @@ (<<"MEAN", "ANOMALY", "DEG">> :> comets_main[r].MEAN_ANOMALY_DEG)
                @@ (<<"EPOCH", "ET">> :> comets_main[r].EPOCH_ET)
    /\ pc' = "part15_read"
    /\ UNCHANGED <<call, ret, A_JUPITER_AU, c_df, searchVars, funcVars,
                   comets_main, P_TYPE_DF, C_TYPE_DF, ATLAS_SPICE_ORB_EL>>

\* ATLAS_ORB_EL.loc[:, 'PERIHELION_KM'] = ATLAS_ORB_EL['PERIHELION_AU']
\*     .apply(lambda x: spiceypy.convrt(x, inunit='AU', outunit='km'))
\* (1 AU = 1.496e8 km)
ConvertPerihelion ==
    /\ pc = "part15_read"
    /\ ATLAS_ORB_EL' =
          (<<"PERIHELION", "KM">> :>
               FMul(ATLAS_ORB_EL[<<"PERIHELION", "AU">>], Sci(1496, 5)))
          @@ ATLAS_ORB_EL
    /\ pc' = "part15_km"
    /\ UNCHANGED <<call, ret, A_JUPITER_AU, c_df, searchVars, funcVars,
                   comets_main, P_TYPE_DF, C_TYPE_DF, ATLAS_SPICE_ORB_EL>>

\* for angle_col_name in [col for col in ATLAS_ORB_EL.columns if 'DEG' in col]:
\*     ATLAS_ORB_EL.loc[:, angle_col_name.replace('DEG', 'RAD')] =
\*         np.radians(ATLAS_ORB_EL[angle_col_name])
ConvertAngles ==
    /\ pc = "part15_km"
    /\ LET degCols == {col \in DOMAIN ATLAS_ORB_EL : HasDeg(col)}
           radOf(n) == CHOOSE col \in degCols : ReplaceDegRad(col) = n
       IN ATLAS_ORB_EL' =
             [n \in DOMAIN ATLAS_ORB_EL \cup {ReplaceDegRad(col) : col \in degCols} |->
                 IF \E col \in degCols : ReplaceDegRad(col) = n
                 THEN np_radians(ATLAS_ORB_EL[radOf(n)])
                 ELSE ATLAS_ORB_EL[n]]
    /\ pc' = "part15_radians"
    /\ UNCHANGED <<call, ret, A_JUPITER_AU, c_df, searchVars, funcVars,
                   comets_main, P_TYPE_DF, C_TYPE_DF, ATLAS_SPICE_ORB_EL>>

\* ATLAS_ORB_EL.loc[:, 'SUN_GM'] = GM_SUN
AddSunGm ==
    /\ pc = "part15_radians"
    /\ ATLAS_ORB_EL' = (<<"SUN", "GM">> :> Sci(1327, 8)) @@ ATLAS_ORB_EL
    /\ pc' = "part15_gm"
    /\ UNCHANGED <<call, ret, A_JUPITER_AU, c_df, searchVars, funcVars,
                   comets_main, P_TYPE_DF, C_TYPE_DF, ATLAS_SPICE_ORB_EL>>

\* ATLAS_SPICE_ORB_EL = ATLAS_ORB_EL[[...]].iloc[0].values: the row of the
\* selected columns, each value kept with the label of its column (which
\* .values drops).  A column that does not exist raises KeyError.
SelectSpiceOrder ==
    /\ pc = "part15_gm"
    /\ IF \A k \in DOMAIN SpiceOrder : SpiceOrder[k] \in DOMAIN ATLAS_ORB_EL
       THEN /\ ATLAS_SPICE_ORB_EL' =
                  [k \in DOMAIN SpiceOrder |->
                      [col |-> SpiceOrder[k], val |-> ATLAS_ORB_EL[SpiceOrder[k]]]]
            /\ pc' = "part15_elements"
       ELSE /\ pc' = "KeyError"
            /\ UNCHANGED ATLAS_SPICE_ORB_EL
    /\ UNCHANGED <<call, ret, A_JUPITER_AU, c_df, searchVars, funcVars,
                   comets_main, P_TYPE_DF, C_TYPE_DF, ATLAS_ORB_EL>>

NextAtlas == ReadAtlas \/ ConvertPerihelion \/ ConvertAngles \/ AddSunGm \/ SelectSpiceOrder

SpecAtlas == InitAtlas /\ [][NextAtlas]_vars

\* The entries of the element array that are angles: inclination, longitude of
\* the ascending node, argument of perihelion, mean anomaly.
AngularEntries == 3..6

\* C24: every angular entry of ATLAS_SPICE_ORB_EL is taken from a column the
\* conversion loop has made, one in radians, and holds the radians of the angle
\* the database stores in degrees.
C24_AnglesFromRadianColumns ==
    pc = "part15_elements"
        => \A k \in AngularEntries :
              LET col == ATLAS_SPICE_ORB_EL[k].col
              IN /\ ~HasDeg(col)
                 /\ \E deg \in DOMAIN ATLAS_ORB_EL :
                       /\ HasDeg(deg)
                       /\ ReplaceDegRad(deg) = col
                       /\ ATLAS_SPICE_ORB_EL[k].val = np_radians(ATLAS_ORB_EL[deg])

----------------------------------------------------------------------------
(* part9: the Tisserand parameter of the P and C type comets of comets_main *)

\* The table holds up to this many comets.
MaxComets == 2

\* A row of comets_main as part7 stores it for a comet of the MPC file: the
\* semi-major axis is the one part7 computes from the perihelion distance and
\* the eccentricity (nan, stored as NULL and read back as nan, for e >= 1).
StoredRow(type, q, e, incl) ==
    [ORBIT_TYPE |-> type, PERIHELION_AU |-> q,
     SEMI_MAJOR_AXIS_AU |-> semi_major_axis_au([Perihelion_dist |-> q, e |-> e]),
     ECCENTRICITY |-> e, INCLINATION_DEG |-> incl]

\* Comets of either orbit type on a closed, a parabolic or a hyperbolic orbit.
StoredRows ==
    {StoredRow(type, Lit(1, 2), e, incl) :
        type \in {"P", "C"}, e \in {Lit(1, 2), One, Lit(3, 2)}, incl \in {0, 60}}

\* The rows of the table numbered by NAME, its primary key.
Named(rows) == [r \in DOMAIN rows |-> ("NAME" :> r) @@ rows[r]]

\* con = sqlite3.connect('../_databases/_comets/mpc_comets.db')
InitPart9 ==
    /\ pc = "part9_connected"
    /\ call = NoCall
    /\ ret = NoRet
    /\ A_JUPITER_AU = Lit(52, 10)
    /\ c_df = <<>>
    /\ SearchNotStarted
    /\ FuncNotCalled
    /\ \E n \in 1..MaxComets : \E rows \in [1..n -> StoredRows] :
          comets_main = Named(rows)
    /\ P_TYPE_DF = <<>>
    /\ C_TYPE_DF = <<>>
    /\ ATLAS_ORB_EL = <<>>
    /\ ATLAS_SPICE_ORB_EL = <<>>

\* SELECT NAME, SEMI_MAJOR_AXIS_AU, INCLINATION_DEG, ECCENTRICITY of a row
Selected(row) ==
    [NAME |-> row["NAME"], SEMI_MAJOR_AXIS_AU |-> row["SEMI_MAJOR_AXIS_AU"],
     INCLINATION_DEG |-> row["INCLINATION_DEG"], ECCENTRICITY |-> row["ECCENTRICITY"]]

\* WHERE ORBIT_TYPE="P"
IsPType(row) == row["ORBIT_TYPE"] = "P"

\* WHERE ORBIT_TYPE="C" AND ECCENTRICITY<1
IsBoundCType(row) == row["ORBIT_TYPE"] = "C" /\ FLess(row["ECCENTRICITY"], One)

\* pd.read_sql('SELECT ... FROM comets_main WHERE ORBIT_TYPE="P"', con)
ReadPType ==
    /\ pc = "part9_connected"
    /\ P_TYPE_DF' = [k \in DOMAIN SelectSeq(comets_main, IsPType) |->
                        Selected(SelectSeq(comets_main, IsPType)[k])]
    /\ pc' = "part9_p_read"
    /\ UNCHANGED <<call, ret, A_JUPITER_AU, c_df, searchVars, funcVars,
                   comets_main, C_TYPE_DF, ATLAS_ORB_EL, ATLAS_SPICE_ORB_EL>>

\* pd.read_sql('SELECT ... FROM comets_main WHERE ORBIT_TYPE="C" AND
\* ECCENTRICITY<1', con)
ReadCType ==
    /\ pc = "part9_p_read"
    /\ C_TYPE_DF' = [k \in DOMAIN SelectSeq(comets_main, IsBoundCType) |->
                        Selected(SelectSeq(comets_main, IsBoundCType)[k])]
    /\ pc' = "part9_c_read"
    /\ UNCHANGED <<call, ret, A_JUPITER_AU, c_df, searchVars, funcVars,
                   comets_main, P_TYPE_DF, ATLAS_ORB_EL, ATLAS_SPICE_ORB_EL>>

\* df.loc[:, 'TISSERAND_JUP'] = df.apply(lambda x:
\*     tisr_jup(a=x['SEMI_MAJOR_AXIS_AU'], i=np.radians(x['INCLINATION_DEG']),
\*              e=x['ECCENTRICITY']), axis=1)
WithTisserand(df) ==
    [k \in DOMAIN df |->
        ("TISSERAND_JUP" :> tisr_jup(df[k]["SEMI_MAJOR_AXIS_AU"],
                                     np_radians(df[k]["INCLINATION_DEG"]),
                                     df[k]["ECCENTRICITY"]).val)
        @@ df[k]]

\* P_TYPE_DF.loc[:, 'TISSERAND_JUP'] = P_TYPE_DF.apply(...)
TisserandPType ==
    /\ pc = "part9_c_read"
    /\ P_TYPE_DF' = WithTisserand(P_TYPE_DF)
    /\ pc' = "part9_p_tisserand"
    /\ UNCHANGED <<call, ret, A_JUPITER_AU, c_df, searchVars, funcVars,
                   comets_main, C_TYPE_DF, ATLAS_ORB_EL, ATLAS_SPICE_ORB_EL>>

\* C_TYPE_DF.loc[:, 'TISSERAND_JUP'] = C_TYPE_DF.apply(...)
TisserandCType ==
    /\ pc = "part9_p_tisserand"
    /\ C_TYPE_DF' = WithTisserand(C_TYPE_DF)
    /\ pc' = "part9_c_tisserand"
    /\ UNCHANGED <<call, ret, A_JUPITER_AU, c_df, searchVars, funcVars,
                   comets_main, P_TYPE_DF, ATLAS_ORB_EL, ATLAS_SPICE_ORB_EL>>

\* The rows of the dataframe df with the name name.
RowsNamed(df, name) == {k \in DOMAIN df : df[k]["NAME"] = name}

\* add_col2tab(..., col_name='TISSERAND_JUP', col_type='REAL') and
\* UPDATE comets_main SET TISSERAND_JUP=? WHERE NAME=?, with the rows of
\* P_TYPE_DF and then with those of C_TYPE_DF.  The new column is NULL (nan
\* when read) in the rows that are not updated.
UpdateCometsMain ==
    /\ pc = "part9_c_tisserand"
    /\ comets_main' =
          [r \in DOMAIN comets_main |->
              ("TISSERAND_JUP" :>
                   IF RowsNamed(C_TYPE_DF, r) # {}
                   THEN C_TYPE_DF[CHOOSE k \in RowsNamed(C_TYPE_DF, r) : TRUE]["TISSERAND_JUP"]
                   ELSE IF RowsNamed(P_TYPE_DF, r) # {}
                   THEN P_TYPE_DF[CHOOSE k \in RowsNamed(P_TYPE_DF, r) : TRUE]["TISSERAND_JUP"]
                   ELSE NaN)
              @@ comets_main[r]]
    /\ pc' = "part9_updated"
    /\ UNCHANGED <<call, ret, A_JUPITER_AU, c_df, searchVars, funcVars,
                   P_TYPE_DF, C_TYPE_DF, ATLAS_ORB_EL, ATLAS_SPICE_ORB_EL>>

NextPart9 ==
    ReadPType \/ ReadCType \/ TisserandPType \/ TisserandCType \/ UpdateCometsMain

SpecPart9 == InitPart9 /\ [][NextPart9]_vars

\* The row lies in the domain of the Tisserand parameter: e in [0, 1), the
\* semi-major axis defined and > 0.
InTisserandDomain(row) ==
    /\ IsFinite(row["SEMI_MAJOR_AXIS_AU"])
    /\ FLess(Zero, row["SEMI_MAJOR_AXIS_AU"])
    /\ FLeq(Zero, row["ECCENTRICITY"])
    /\ FLess(row["ECCENTRICITY"], One)

\* C25: every row of the P type and of the C type selection for which the
\* Tisserand parameter is evaluated lies in the function's domain, and the
\* value written to TISSERAND_JUP, in the dataframe and in comets_main, is a
\* defined real number.
C25_TisserandRowsInDomain ==
    /\ pc \in {"part9_p_tisserand", "part9_c_tisserand", "part9_updated"}
          => \A k \in DOMAIN P_TYPE_DF :
                InTisserandDomain(P_TYPE_DF[k]) /\ IsFinite(P_TYPE_DF[k]["TISSERAND_JUP"])
    /\ pc \in {"part9_c_tisserand", "part9_updated"}
          => \A k \in DOMAIN C_TYPE_DF :
                InTisserandDomain(C_TYPE_DF[k]) /\ IsFinite(C_TYPE_DF[k]["TISSERAND_JUP"])
    /\ pc = "part9_updated"
          => \A r \in DOMAIN comets_main :
                (RowsNamed(P_TYPE_DF, r) \cup RowsNamed(C_TYPE_DF, r) # {})
                    => IsFinite(comets_main[r]["TISSERAND_JUP"])

====
